---------------------------- MODULE Spec2Model ----------------------------
(***************************************************************************)
(* Model of the DoorDash guest-session scraper:                            *)
(*   - src/Now_on_doordash.py     OptimizedDoorDashFlow, run_optimized_flow,*)
(*                                find_now_on_doordash_cursor,              *)
(*                                extract_stores_from_feed                  *)
(*   - src/doordash_guest_flow.py DoorDashGuestFlow, run_complete_flow      *)
(*                                                                         *)
(* A JSON value is a record of one field named after its kind ([str |-> s],*)
(* [dict |-> pairs], ...); Python strings are sequences of one-character   *)
(* strings, so that strip, lower, startswith, slicing and substring tests  *)
(* are computed and not assumed.                                           *)
(***************************************************************************)
EXTENDS Integers, Sequences, FiniteSets, TLC

(***************************************************************************)
(* Python / JSON values                                                    *)
(***************************************************************************)
PyNone == [null |-> 0]
PyStr(s) == [str |-> s]
PyNum(n) == [num |-> n]
PyBool(b) == [bool |-> b]
\* a mapping is the sequence of its <<key, value>> pairs in insertion order
PyDict(items) == [dict |-> items]
PyList(items) == [list |-> items]
\* an exception raised by the evaluation, instead of a value
Raise(kind) == [raise |-> kind]
\* a key a mapping does not hold
Absent == [absent |-> 0]

\* a value is a record of one field, named after its kind
Kind(x) == CHOOSE f \in DOMAIN x : TRUE
Val(x) == x[Kind(x)]

IsRaise(x) == Kind(x) = "raise"
IsContainer(x) == Kind(x) \in {"dict", "list"}

\* Python truthiness: bool(x)
Truthy(x) ==
    CASE Kind(x) = "null" -> FALSE
      [] Kind(x) = "bool" -> Val(x)
      [] Kind(x) = "num" -> Val(x) # 0
      [] Kind(x) \in {"str", "dict", "list"} -> Len(Val(x)) > 0
      [] OTHER -> FALSE

\* key in d, d[key], d.get(key, default) for a mapping d
HasKey(d, key) == \E i \in 1..Len(Val(d)) : Val(d)[i][1] = key
Get(d, key) == Val(d)[CHOOSE i \in 1..Len(Val(d)) : Val(d)[i][1] = key][2]
GetOr(d, key, default) == IF HasKey(d, key) THEN Get(d, key) ELSE default

(***************************************************************************)
(* Python strings                                                          *)
(***************************************************************************)
UpperChars == <<"A", "B", "C", "D", "E", "F", "G", "H", "I", "J", "K", "L", "M", "N", "O", "P", "Q", "R", "S", "T", "U", "V", "W", "X", "Y", "Z">>
LowerChars == <<"a", "b", "c", "d", "e", "f", "g", "h", "i", "j", "k", "l", "m", "n", "o", "p", "q", "r", "s", "t", "u", "v", "w", "x", "y", "z">>
Whitespace == {" ", "\t", "\n", "\r"}

LowerChar(c) ==
    IF \E i \in 1..Len(UpperChars) : UpperChars[i] = c
    THEN LowerChars[CHOOSE i \in 1..Len(UpperChars) : UpperChars[i] = c]
    ELSE c

\* s.lower()
Lower(s) == [i \in 1..Len(s) |-> LowerChar(s[i])]

\* s.strip(): leading and trailing whitespace removed
Strip(s) ==
    LET keep == {i \in 1..Len(s) : s[i] \notin Whitespace}
    IN  IF keep = {} THEN <<>>
        ELSE LET lo == CHOOSE i \in keep : \A j \in keep : i <= j
                 hi == CHOOSE i \in keep : \A j \in keep : j <= i
             IN  SubSeq(s, lo, hi)

\* s.startswith(p)
StartsWith(s, p) == Len(s) >= Len(p) /\ SubSeq(s, 1, Len(p)) = p
\* s.endswith(p)
EndsWith(s, p) == Len(s) >= Len(p) /\ SubSeq(s, Len(s) - Len(p) + 1, Len(s)) = p
\* p in s, for strings
Contains(s, p) == \E i \in 0..(Len(s) - Len(p)) : SubSeq(s, i + 1, i + Len(p)) = p

\* the string literals of the source
TARGET_PHRASE == <<"n", "o", "w", " ", "o", "n", " ", "d", "o", "o", "r", "d", "a", "s", "h">>
URI_PREFIX == <<"f", "a", "c", "e", "t", "_", "f", "e", "e", "d", "/">>
\* uri[11:] : the literal 11 of the slice
PrefixLen == 11
\* len(name) > 2
MinNameLen == 2

\* the characters of a key literal, for `key in x` when x is a string or a list
KeyChars(key) ==
    CASE key = "click" -> <<"c", "l", "i", "c", "k">>
      [] key = "uri" -> <<"u", "r", "i">>
      [] key = "auth_token" -> <<"a", "u", "t", "h", "_", "t", "o", "k", "e", "n">>
      [] key = "token" -> <<"t", "o", "k", "e", "n">>
      [] key = "id" -> <<"i", "d">>
      [] key = "lat" -> <<"l", "a", "t">>
      [] key = "lng" -> <<"l", "n", "g">>
      [] key = "offset" -> <<"o", "f", "f", "s", "e", "t">>
      [] key = "content_ids" -> <<"c", "o", "n", "t", "e", "n", "t", "_", "i", "d", "s">>
      [] key = "request_parent_id" -> <<"r", "e", "q", "u", "e", "s", "t", "_", "p", "a", "r", "e", "n", "t", "_", "i", "d">>
      [] key = "request_child_id" -> <<"r", "e", "q", "u", "e", "s", "t", "_", "c", "h", "i", "l", "d", "_", "i", "d">>
      [] key = "cross_vertical_page_type" -> <<"c", "r", "o", "s", "s", "_", "v", "e", "r", "t", "i", "c", "a", "l", "_", "p", "a", "g", "e", "_", "t", "y", "p", "e">>
      [] key = "page_stack_trace" -> <<"p", "a", "g", "e", "_", "s", "t", "a", "c", "k", "_", "t", "r", "a", "c", "e">>
      [] key = "vertical_ids" -> <<"v", "e", "r", "t", "i", "c", "a", "l", "_", "i", "d", "s">>
      [] key = "baseCursor" -> <<"b", "a", "s", "e", "C", "u", "r", "s", "o", "r">>
      [] key = "page_id" -> <<"p", "a", "g", "e", "_", "i", "d">>
      [] key = "page_type" -> <<"p", "a", "g", "e", "_", "t", "y", "p", "e">>
      [] key = "cursor_version" -> <<"c", "u", "r", "s", "o", "r", "_", "v", "e", "r", "s", "i", "o", "n">>

\* the key literals of the source
Keys ==
    {"click", "uri", "auth_token", "token", "id",
     "lat", "lng", "offset", "content_ids", "request_parent_id",
     "request_child_id", "cross_vertical_page_type", "page_stack_trace", "vertical_ids", "baseCursor",
     "page_id", "page_type", "cursor_version"}

\* `key in x`: "yes", "no", or "raise" (TypeError: x is not iterable)
PyIn(key, x) ==
    CASE Kind(x) = "dict" -> IF HasKey(x, key) THEN "yes" ELSE "no"
      [] Kind(x) = "list" ->
            IF \E i \in 1..Len(Val(x)) : Val(x)[i] = PyStr(KeyChars(key)) THEN "yes" ELSE "no"
      [] Kind(x) = "str" -> IF Contains(Val(x), KeyChars(key)) THEN "yes" ELSE "no"
      [] OTHER -> "raise"

(***************************************************************************)
(* find_now_on_doordash_cursor                                             *)
(***************************************************************************)
Fall == [fall |-> 0]

\* (a variant that removes every trailing "/": rstrip('/'))
CursorOfUri_StripAll(uri) ==
    LET cursor == SubSeq(uri, PrefixLen + 1, Len(uri))
        keep == {i \in 1..Len(cursor) : cursor[i] # "/"}
    IN  IF keep = {} THEN <<>>
        ELSE SubSeq(cursor, 1, CHOOSE i \in keep : \A j \in keep : j <= i)

\* cursor = uri[11:], one trailing "/" removed
CursorOfUri(uri) ==
    LET cursor == SubSeq(uri, PrefixLen + 1, Len(uri))
    IN  IF EndsWith(cursor, <<"/">>) THEN SubSeq(cursor, 1, Len(cursor) - 1) ELSE cursor

\* the events.click.data.uri lookup of a node whose title matched:
\* the cursor (returned at once), Fall (go on to the nested items) or Raise
ClickCursor(item) ==
    IF ~HasKey(item, "events") THEN Fall
    ELSE LET events == Get(item, "events") IN
    IF PyIn("click", events) = "raise" THEN Raise("TypeError")
    ELSE IF PyIn("click", events) = "no" THEN Fall
    ELSE IF Kind(events) # "dict" THEN Raise("TypeError")
    ELSE LET click == Get(events, "click") IN
    IF Kind(click) # "dict" THEN Raise("AttributeError")
    ELSE LET click_data == GetOr(click, "data", PyDict(<<>>)) IN
    IF PyIn("uri", click_data) = "raise" THEN Raise("TypeError")
    ELSE IF PyIn("uri", click_data) = "no" THEN Fall
    ELSE IF Kind(click_data) # "dict" THEN Raise("TypeError")
    ELSE LET uri == Get(click_data, "uri") IN
    IF Kind(uri) # "str" THEN Raise("AttributeError")
    ELSE IF StartsWith(Val(uri), URI_PREFIX) THEN PyStr(CursorOfUri(Val(uri)))
    ELSE Fall

\* title = item['text'].get('title', '').strip(): a string value, or Raise
TitleOf(text) ==
    LET t == GetOr(text, "title", PyStr(<<>>))
    IN  IF Kind(t) = "str" THEN PyStr(Strip(Val(t))) ELSE Raise("AttributeError")

\* (a variant that wants the title to be the phrase: title.lower() == 'now on doordash')
TitleMatches_Equal(title) == Len(title) > 0 /\ Lower(title) = TARGET_PHRASE

\* title and 'now on doordash' in title.lower()
TitleMatches(title) == Len(title) > 0 /\ Contains(Lower(title), TARGET_PHRASE)

\* the check a mapping node undergoes before its nested items are searched
NodeCursor(item) ==
    IF ~(HasKey(item, "text") /\ Kind(Get(item, "text")) = "dict") THEN Fall
    ELSE LET title == TitleOf(Get(item, "text")) IN
    IF IsRaise(title) THEN title
    ELSE IF TitleMatches(Val(title)) THEN ClickCursor(item)
    ELSE Fall

RECURSIVE search_for_now_on_doordash(_)
RECURSIVE SearchItems(_, _, _)

\* the two for-loops: over a mapping's values (containers only) and over a
\* list's elements (all of them); the first truthy result is returned
SearchItems(vals, i, containersOnly) ==
    IF i > Len(vals) THEN PyNone
    ELSE IF containersOnly /\ ~IsContainer(vals[i])
         THEN SearchItems(vals, i + 1, containersOnly)
    ELSE LET result == search_for_now_on_doordash(vals[i]) IN
         IF IsRaise(result) THEN result
         ELSE IF Truthy(result) THEN result
         ELSE SearchItems(vals, i + 1, containersOnly)

search_for_now_on_doordash(item) ==
    IF Kind(item) = "dict"
    THEN LET c == NodeCursor(item) IN
         IF Kind(c) = "fall"
         THEN SearchItems([i \in 1..Len(Val(item)) |-> Val(item)[i][2]], 1, TRUE)
         ELSE c
    ELSE IF Kind(item) = "list" THEN SearchItems(Val(item), 1, FALSE)
    ELSE PyNone

\* (a variant that takes the document for a mapping: homepage_data.items())
find_now_on_doordash_cursor_MappingOnly(homepage_data) ==
    IF Kind(homepage_data) # "dict" THEN Raise("AttributeError")
    ELSE LET cursor == search_for_now_on_doordash(homepage_data)
         IN  IF IsRaise(cursor) THEN cursor
             ELSE IF Truthy(cursor) THEN cursor
             ELSE PyNone

\* the cursor, None, or Raise
find_now_on_doordash_cursor(homepage_data) ==
    LET cursor == search_for_now_on_doordash(homepage_data)
    IN  IF IsRaise(cursor) THEN cursor
        ELSE IF Truthy(cursor) THEN cursor
        ELSE PyNone

(***************************************************************************)
(* extract_stores_from_feed                                                *)
(***************************************************************************)
\* text_data.get(field, '').strip(): a string value, or Raise
StrippedField(text_data, fld) ==
    LET t == GetOr(text_data, fld, PyStr(<<>>))
    IN  IF Kind(t) = "str" THEN PyStr(Strip(Val(t))) ELSE Raise("AttributeError")

\* d.get(key), None when the key is missing
GetOrNone(d, key) == GetOr(d, key, PyNone)

\* click_data = item['events']['click'].get('data', {}): a value, Fall when
\* the node has no events.click, or Raise
ClickData(item) ==
    IF ~HasKey(item, "events") THEN Fall
    ELSE LET events == Get(item, "events") IN
    IF PyIn("click", events) = "raise" THEN Raise("TypeError")
    ELSE IF PyIn("click", events) = "no" THEN Fall
    ELSE IF Kind(events) # "dict" THEN Raise("TypeError")
    ELSE LET click == Get(events, "click") IN
    IF Kind(click) # "dict" THEN Raise("AttributeError")
    ELSE GetOr(click, "data", PyDict(<<>>))

\* the store_info dict a mapping node assembles (a missing key is Absent),
\* or Raise
StoreInfo(item) ==
    LET hasText == HasKey(item, "text") /\ Kind(Get(item, "text")) = "dict"
        name == IF hasText THEN StrippedField(Get(item, "text"), "title") ELSE Absent
        subtitle == IF hasText THEN StrippedField(Get(item, "text"), "subtitle") ELSE Absent
        hasCustom == HasKey(item, "custom") /\ Kind(Get(item, "custom")) = "dict"
        custom_data == IF hasCustom THEN Get(item, "custom") ELSE PyDict(<<>>)
        click_data == ClickData(item)
    IN  IF IsRaise(name) THEN name
        ELSE IF IsRaise(subtitle) THEN subtitle
        ELSE IF IsRaise(click_data) THEN click_data
        ELSE IF Kind(click_data) \notin {"fall", "dict"} THEN Raise("AttributeError")
        ELSE [name |-> name,
              subtitle |-> subtitle,
              rating |-> IF hasCustom THEN GetOrNone(custom_data, "rating") ELSE Absent,
              delivery_fee |-> IF hasCustom THEN GetOrNone(custom_data, "delivery_fee") ELSE Absent,
              delivery_time |-> IF hasCustom THEN GetOrNone(custom_data, "delivery_time") ELSE Absent,
              store_id |-> IF Kind(click_data) = "fall" THEN Absent ELSE GetOrNone(click_data, "store_id"),
              uri |-> IF Kind(click_data) = "fall" THEN Absent ELSE GetOrNone(click_data, "uri")]

\* IsStore without the length test: any non-empty name is a store
IsStore_AnyName(store_info) ==
    /\ Kind(store_info.name) = "str"
    /\ Truthy(store_info.name)

\* (a variant that also wants custom or click data for a store)
IsStore_NeedsData(store_info) ==
    /\ Kind(store_info.name) = "str"
    /\ Truthy(store_info.name)
    /\ Len(Val(store_info.name)) > MinNameLen
    /\ (store_info.rating # Absent \/ store_info.store_id # Absent)

\* store_info.get('name') and len(store_info.get('name', '')) > 2
IsStore(store_info) ==
    /\ Kind(store_info.name) = "str"
    /\ Truthy(store_info.name)
    /\ Len(Val(store_info.name)) > MinNameLen

\* the record appended to stores
StoreRecord(store_info, source_name, path) ==
    [name |-> store_info.name, subtitle |-> store_info.subtitle,
     rating |-> store_info.rating, delivery_fee |-> store_info.delivery_fee,
     delivery_time |-> store_info.delivery_time, store_id |-> store_info.store_id,
     uri |-> store_info.uri, source |-> source_name, path |-> path]

Stores(seq) == [stores |-> seq]

RECURSIVE extract_store_info(_, _, _)
RECURSIVE ExtractDictItems(_, _, _, _)
RECURSIVE ExtractListItems(_, _, _, _)

\* for key, value in item.items(): containers only, path "<path>.<key>"
ExtractDictItems(items, i, path, source_name) ==
    IF i > Len(items) THEN Stores(<<>>)
    ELSE IF ~IsContainer(items[i][2]) THEN ExtractDictItems(items, i + 1, path, source_name)
    ELSE LET here == extract_store_info(items[i][2], path \o "." \o items[i][1], source_name) IN
         IF IsRaise(here) THEN here
         ELSE LET rest == ExtractDictItems(items, i + 1, path, source_name) IN
              IF IsRaise(rest) THEN rest ELSE Stores(Val(here) \o Val(rest))

\* for i, sub_item in enumerate(item): path "<path>[<i>]", i from 0
ExtractListItems(items, i, path, source_name) ==
    IF i > Len(items) THEN Stores(<<>>)
    ELSE LET here == extract_store_info(items[i], path \o "[" \o ToString(i - 1) \o "]", source_name) IN
         IF IsRaise(here) THEN here
         ELSE LET rest == ExtractListItems(items, i + 1, path, source_name) IN
              IF IsRaise(rest) THEN rest ELSE Stores(Val(here) \o Val(rest))

\* (a variant that does not look below a node that is a record)
extract_store_info_StopAtRecord(item, path, source_name) ==
    IF Kind(item) = "dict"
    THEN LET store_info == StoreInfo(item) IN
         IF IsRaise(store_info) THEN store_info
         ELSE IF IsStore(store_info)
         THEN Stores(<<StoreRecord(store_info, source_name, path)>>)
         ELSE ExtractDictItems(Val(item), 1, path, source_name)
    ELSE IF Kind(item) = "list" THEN ExtractListItems(Val(item), 1, path, source_name)
    ELSE Stores(<<>>)

\* the records appended to stores by the visit of item, in order, or Raise
extract_store_info(item, path, source_name) ==
    IF Kind(item) = "dict"
    THEN LET store_info == StoreInfo(item) IN
         IF IsRaise(store_info) THEN store_info
         ELSE LET own == IF IsStore(store_info)
                         THEN <<StoreRecord(store_info, source_name, path)>>
                         ELSE <<>>
                  nested == ExtractDictItems(Val(item), 1, path, source_name)
              IN  IF IsRaise(nested) THEN nested ELSE Stores(own \o Val(nested))
    ELSE IF Kind(item) = "list" THEN ExtractListItems(Val(item), 1, path, source_name)
    ELSE Stores(<<>>)

\* KeepStore comparing the names as written, without lower()
KeepStore_CaseSensitive(stores, i) ==
    /\ Len(Val(stores[i].name)) > 0
    /\ \A j \in 1..(i - 1) : Val(stores[j].name) # Val(stores[i].name)

\* KeepStore keeping the last record of a name instead of the first
KeepStore_Last(stores, i) ==
    LET name == Lower(Val(stores[i].name))
    IN  /\ Len(name) > 0
        /\ \A j \in (i + 1)..Len(stores) : Lower(Val(stores[j].name)) # name

\* name = store.get('name', '').lower(); kept when name and name not in seen_names
KeepStore(stores, i) ==
    LET name == Lower(Val(stores[i].name))
    IN  /\ Len(name) > 0
        /\ \A j \in 1..(i - 1) : Lower(Val(stores[j].name)) # name

RECURSIVE UniqueStores(_, _)
\* "Remove duplicates based on name": the loop over stores from index i
UniqueStores(stores, i) ==
    IF i > Len(stores) THEN <<>>
    ELSE (IF KeepStore(stores, i) THEN <<stores[i]>> ELSE <<>>) \o UniqueStores(stores, i + 1)

\* the list of unique stores (a Python list), or Raise
extract_stores_from_feed(feed_data, source_name) ==
    LET stores == extract_store_info(feed_data, "", source_name)
    IN  IF IsRaise(stores) THEN stores ELSE PyList(UniqueStores(Val(stores), 1))

(***************************************************************************)
(* Documents: the remote service's feed documents the engines are run on   *)
(***************************************************************************)
T_NowOnDoorDash == <<"N", "o", "w", " ", "o", "n", " ", "D", "o", "o", "r", "D", "a", "s", "h">>
T_NowLowerSp == <<"N", "o", "w", " ", "o", "n", " ", "d", "o", "o", "r", "d", "a", "s", "h", " ">>
T_TryNow == <<"T", "r", "y", " ", "N", "O", "W", " ", "O", "N", " ", "D", "o", "o", "r", "D", "a", "s", "h", "!">>
T_Unrelated == <<"U", "n", "r", "e", "l", "a", "t", "e", "d">>
T_PizzaPlace == <<"P", "i", "z", "z", "a", " ", "P", "l", "a", "c", "e">>
T_PizzaPlaceLc == <<"P", "i", "z", "z", "a", " ", "p", "l", "a", "c", "e">>
T_Tacos == <<"T", "a", "c", "o", "s">>
T_Pi == <<"P", "i">>
T_AlPadded == <<" ", "A", "l", " ">>
U_ABC123Slash == <<"f", "a", "c", "e", "t", "_", "f", "e", "e", "d", "/", "A", "B", "C", "1", "2", "3", "/">>
U_XYZSlash == <<"f", "a", "c", "e", "t", "_", "f", "e", "e", "d", "/", "X", "Y", "Z", "/">>
U_ABC123 == <<"f", "a", "c", "e", "t", "_", "f", "e", "e", "d", "/", "A", "B", "C", "1", "2", "3">>
U_XYZTwoSlashes == <<"f", "a", "c", "e", "t", "_", "f", "e", "e", "d", "/", "X", "Y", "Z", "/", "/">>
U_PrefixOnly == <<"f", "a", "c", "e", "t", "_", "f", "e", "e", "d", "/">>
U_Store == <<"s", "t", "o", "r", "e", "/", "1">>
K_ABC123 == <<"A", "B", "C", "1", "2", "3">>
K_XYZ == <<"X", "Y", "Z">>

TextOf(title) == <<"text", PyDict(<< <<"title", title>> >>)>>
EventsOf(uri) ==
    <<"events", PyDict(<< <<"click", PyDict(<< <<"data", PyDict(<< <<"uri", uri>> >>)>> >>)>> >>)>>

\* section headers: a matching title and a click uri
N_SectionABC == PyDict(<<TextOf(PyStr(T_NowOnDoorDash)), EventsOf(PyStr(U_ABC123Slash))>>)
N_SectionXYZ == PyDict(<<TextOf(PyStr(T_NowLowerSp)), EventsOf(PyStr(U_XYZSlash))>>)
N_SectionNoSlash == PyDict(<<TextOf(PyStr(T_NowOnDoorDash)), EventsOf(PyStr(U_ABC123))>>)
\* the phrase inside a longer title
N_SectionLonger == PyDict(<<TextOf(PyStr(T_TryNow)), EventsOf(PyStr(U_ABC123Slash))>>)
N_SectionTwoSlashes == PyDict(<<TextOf(PyStr(T_NowOnDoorDash)), EventsOf(PyStr(U_XYZTwoSlashes))>>)
\* a matching title without a usable uri
N_SectionNoEvents == PyDict(<<TextOf(PyStr(T_NowOnDoorDash))>>)
N_SectionBadUri == PyDict(<<TextOf(PyStr(T_NowOnDoorDash)), EventsOf(PyStr(U_Store))>>)
N_SectionEmptyTok == PyDict(<<TextOf(PyStr(T_NowOnDoorDash)), EventsOf(PyStr(U_PrefixOnly))>>)
\* stores
N_Pizza ==
    PyDict(<< <<"text", PyDict(<< <<"title", PyStr(T_PizzaPlace)>>, <<"subtitle", PyStr(T_Pi)>> >>)>>,
              <<"custom", PyDict(<< <<"rating", PyNum(4)>> >>)>>,
              <<"events", PyDict(<< <<"click", PyDict(<< <<"data",
                    PyDict(<< <<"store_id", PyStr(<<"7">>)>>, <<"uri", PyStr(U_Store)>> >>)>> >>)>> >>)>> >>)
N_PizzaLc == PyDict(<<TextOf(PyStr(T_PizzaPlaceLc))>>)
N_Tacos == PyDict(<<TextOf(PyStr(T_Tacos)), <<"custom", PyDict(<<>>)>> >>)
N_Unrelated == PyDict(<<TextOf(PyStr(T_Unrelated))>>)
\* names too short to be a store
N_Pi == PyDict(<<TextOf(PyStr(T_Pi)), <<"custom", PyDict(<< <<"rating", PyNum(5)>> >>)>> >>)
N_AlPadded == PyDict(<<TextOf(PyStr(T_AlPadded))>>)
N_CustomOnly == PyDict(<< <<"custom", PyDict(<< <<"rating", PyNum(3)>> >>)>>, EventsOf(PyStr(U_Store))>>)
N_NoTitle == PyDict(<< <<"text", PyDict(<< <<"subtitle", PyStr(T_Tacos)>> >>)>> >>)
N_TextNotMapping == PyDict(<< <<"text", PyStr(T_Tacos)>> >>)
\* heterogeneous nodes
N_NullTitle == PyDict(<<TextOf(PyNone)>>)
N_NumTitle == PyDict(<<TextOf(PyNum(7))>>)
N_NullSubtitle ==
    PyDict(<< <<"text", PyDict(<< <<"title", PyStr(T_Tacos)>>, <<"subtitle", PyNone>> >>)>> >>)
N_NullEvents == PyDict(<<TextOf(PyStr(T_NowOnDoorDash)), <<"events", PyNone>> >>)
N_StrEvents == PyDict(<<TextOf(PyStr(T_NowOnDoorDash)), <<"events", PyStr(<<"c", "l", "i", "c", "k">>)>> >>)
N_NullClick ==
    PyDict(<<TextOf(PyStr(T_NowOnDoorDash)), <<"events", PyDict(<< <<"click", PyNone>> >>)>> >>)
N_NullData ==
    PyDict(<<TextOf(PyStr(T_NowOnDoorDash)),
             <<"events", PyDict(<< <<"click", PyDict(<< <<"data", PyNone>> >>)>> >>)>> >>)
N_NumUri == PyDict(<<TextOf(PyStr(T_NowOnDoorDash)), EventsOf(PyNum(1))>>)

\* the nodes combined with one another in documents of several nodes
CoreNodes ==
    {N_SectionABC, N_SectionXYZ, N_SectionBadUri, N_SectionEmptyTok,
     N_Pizza, N_PizzaLc, N_Tacos, N_Pi, N_NullTitle}
\* the nodes that also occur alone
AllNodes ==
    CoreNodes \cup
    {N_SectionNoSlash, N_SectionTwoSlashes, N_SectionLonger, N_SectionNoEvents, N_Unrelated, N_AlPadded, N_CustomOnly, N_NoTitle,
     N_TextNotMapping, N_NumTitle, N_NullSubtitle, N_NullEvents, N_StrEvents, N_NullClick,
     N_NullData, N_NumUri}

\* the largest number of nodes combined in one document
MaxItems == 3
ChildKeys == <<"a", "b", "c", "d", "e">>

WithChild(node, key, child) == PyDict(Val(node) \o << <<key, child>> >>)

RECURSIVE Chain(_)
\* s[1] holding s[2] under a key, holding s[3], ...
Chain(s) == IF Len(s) = 1 THEN s[1] ELSE WithChild(s[1], "a", Chain(Tail(s)))
\* a sequence of siblings
ListOf(s) == PyList(s)
\* a mapping without text holding the siblings in a list: {"a": [...]}
Wrapped(s) == PyDict(<< <<"a", PyList(s)>> >>)
\* a mapping without text holding the nodes under keys a, b, c, ...
Fan(s) == PyDict([i \in 1..Len(s) |-> <<ChildKeys[i], s[i]>>])
\* the first node holds the second in a list; the others are its later siblings
Tree(s) ==
    IF Len(s) = 1 THEN PyList(<<PyList(s)>>)
    ELSE PyList(<<WithChild(s[1], "a", PyList(<<s[2]>>))>> \o SubSeq(s, 3, Len(s)))

ShapesOf(s) == {Chain(s), ListOf(s), Wrapped(s), Fan(s), Tree(s)}

NodeSeqs(nodes, n) == UNION {[1..m -> nodes] : m \in 1..n}

\* documents without a mapping node, and leaves among nodes
LeafDocs ==
    {PyNone, PyNum(0), PyBool(TRUE), PyStr(T_NowOnDoorDash), PyList(<<>>), PyDict(<<>>),
     PyList(<<PyList(<<>>), PyList(<<PyStr(T_NowOnDoorDash), PyNum(1)>>)>>),
     PyList(<<PyStr(T_Tacos), N_SectionABC>>),
     PyDict(<< <<"title", PyStr(T_NowOnDoorDash)>>, <<"a", N_SectionXYZ>> >>)}

\* a matching node after a sibling that does not match, in a nested sequence
SiblingDocs == {Wrapped(<<N_Unrelated, N_SectionXYZ>>)}

Documents ==
    LeafDocs
    \cup SiblingDocs
    \cup UNION {ShapesOf(s) : s \in NodeSeqs(CoreNodes, MaxItems)}
    \cup UNION {ShapesOf(s) : s \in NodeSeqs(AllNodes, 1)}

(***************************************************************************)
(* State                                                                   *)
(***************************************************************************)
VARIABLES
    flow,           \* "optimized" (run_optimized_flow), "guest" (run_complete_flow), "none"
    pc,             \* the step the flow is about to run, or "done"
    ids,            \* session_id, device_id, correlation_id, client_request_id
    jwt_token,      \* self.jwt_token
    authorization,  \* session.headers['Authorization']
    address_id,     \* self.address_id
    lat,            \* self.lat
    lng,            \* self.lng
    id_headers,     \* the identifier headers of session.headers
    place_id,       \* the flow's local place_id
    homepage_data,  \* the flow's local homepage_data
    now_cursor,     \* the flow's local now_cursor
    feed_data,      \* the flow's local now_feed_data / general_feed
    flow_stores,    \* the flow's local stores
    result,         \* what the flow returned (or raised)
    aborted,        \* the step whose failure ended the flow, "" when none did
    sent,           \* the requests dispatched so far, in order
    ret,            \* what each step's call returned
    resp,           \* the response each step's last request received
    doc,            \* the document handed to the two engines (DocSpec)
    dpc,            \* "start", "searched", "extracted" (DocSpec)
    cursor,         \* what find_now_on_doordash_cursor returned or raised (DocSpec)
    stores,         \* what extract_stores_from_feed returned or raised (DocSpec)
    descriptor,     \* the cursor mapping to encode (CursorSpec)
    encoded,        \* cursor_b64: the encoded cursor (CursorSpec)
    cursor_data,    \* what decoding the token gave or raised (CursorSpec)
    cpc             \* "start", "encoded", "decoded": step 15 has returned (CursorSpec)

session == <<jwt_token, authorization, address_id, lat, lng, id_headers>>
locals == <<place_id, homepage_data, now_cursor, feed_data, flow_stores>>
fvars == <<flow, pc, ids, session, locals, result, aborted, sent, ret, resp>>
dvars == <<doc, dpc, cursor, stores>>
cvars == <<descriptor, encoded, cursor_data, cpc>>
vars == <<fvars, dvars, cvars>>

NotRun == [notrun |-> 0]

(***************************************************************************)
(* Text, bytes and base-64: str.encode, bytes.decode, base64.b64encode,    *)
(* base64.b64decode. A byte is its number; a text holds printable ASCII.   *)
(***************************************************************************)
\* the printable ASCII characters, from code 32 to code 126; the grave accent
\* (code 96) is written "GRAVE"
Ascii ==
    <<" ", "!", "\"", "#", "$", "%", "&", "'", "(", ")", "*", "+", ",", "-", ".", "/",
     "0", "1", "2", "3", "4", "5", "6", "7", "8", "9", ":", ";", "<", "=", ">", "?",
     "@", "A", "B", "C", "D", "E", "F", "G", "H", "I", "J", "K", "L", "M", "N", "O",
     "P", "Q", "R", "S", "T", "U", "V", "W", "X", "Y", "Z", "[", "\\", "]", "^", "_",
     "GRAVE", "a", "b", "c", "d", "e", "f", "g", "h", "i", "j", "k", "l", "m", "n", "o",
     "p", "q", "r", "s", "t", "u", "v", "w", "x", "y", "z", "{", "|", "}", "~">>

CodeOf(c) == 31 + (CHOOSE i \in 1..Len(Ascii) : Ascii[i] = c)
CharOf(b) == Ascii[b - 31]

\* a bytes object: the sequence of its bytes
PyBytes(bytes) == [bytes |-> bytes]

\* text.encode(): the bytes of a text
Encode(text) == PyBytes([i \in 1..Len(text) |-> CodeOf(text[i])])

\* bytes.decode(): the text of the bytes, or UnicodeDecodeError
Decode(bytes) ==
    IF \A i \in 1..Len(bytes) : bytes[i] >= 32 /\ bytes[i] <= 126
    THEN PyStr([i \in 1..Len(bytes) |-> CharOf(bytes[i])])
    ELSE Raise("UnicodeDecodeError")

B64Alphabet ==
    <<"A", "B", "C", "D", "E", "F", "G", "H", "I", "J", "K", "L", "M", "N", "O", "P",
     "Q", "R", "S", "T", "U", "V", "W", "X", "Y", "Z", "a", "b", "c", "d", "e", "f",
     "g", "h", "i", "j", "k", "l", "m", "n", "o", "p", "q", "r", "s", "t", "u", "v",
     "w", "x", "y", "z", "0", "1", "2", "3", "4", "5", "6", "7", "8", "9", "+", "/">>

B64Pad == "="

\* the number a base-64 character stands for
SextetOf(c) == (CHOOSE i \in 1..Len(B64Alphabet) : B64Alphabet[i] = c) - 1

\* 64 to the power k, for k in 0..3
Pow64(k) == CASE k = 0 -> 1 [] k = 1 -> 64 [] k = 2 -> 64 * 64 [] k = 3 -> 64 * 64 * 64

IsB64Char(c) == \E i \in 1..Len(B64Alphabet) : B64Alphabet[i] = c

\* each group of three bytes gives four characters; a last group of one or
\* two bytes is filled up with "="
B64Chars(bytes) ==
    LET n == Len(bytes)
        ByteAt(i) == IF i <= n THEN bytes[i] ELSE 0
        OutChar(j) ==
            LET g == (j - 1) \div 4
                k == (j - 1) % 4
                group == ByteAt(3 * g + 1) * 256 * 256 + ByteAt(3 * g + 2) * 256 + ByteAt(3 * g + 3)
            IN  IF (k = 2 /\ 3 * g + 2 > n) \/ (k = 3 /\ 3 * g + 3 > n)
                THEN B64Pad
                ELSE B64Alphabet[((group \div Pow64(3 - k)) % 64) + 1]
    IN  [j \in 1..(4 * ((n + 2) \div 3)) |-> OutChar(j)]

\* (a variant that writes no "=")
b64encode_Unpadded(bytes) == Encode(SelectSeq(B64Chars(bytes), IsB64Char))

\* base64.b64encode(bytes): the characters, as bytes
b64encode(bytes) == Encode(B64Chars(bytes))

\* base64.b64decode(text), not validating: characters outside the alphabet
\* are skipped, a "=" that completes a group of four ends the input, and a
\* last group that is not complete raises binascii.Error
b64decode(text) ==
    LET n == Len(text)
        \* the number of alphabet characters among the first i
        DataBefore(i) == Cardinality({j \in 1..i : IsB64Char(text[j])})
        \* the "=" since the last alphabet character, up to i
        PadsAt(i) ==
            Cardinality({j \in 1..i : text[j] = B64Pad
                                      /\ \A m \in j..i : ~IsB64Char(text[m])})
        Ends(i) ==
            /\ text[i] = B64Pad
            /\ (DataBefore(i) % 4) >= 2
            /\ (DataBefore(i) % 4) + PadsAt(i) >= 4
        last == IF \E i \in 1..n : Ends(i)
                THEN (CHOOSE i \in 1..n : Ends(i) /\ \A j \in 1..(i - 1) : ~Ends(j)) - 1
                ELSE n
        data == SelectSeq(SubSeq(text, 1, last), IsB64Char)
        count == Len(data)
        ended == last < n
        SextetAt(i) == IF i <= count THEN SextetOf(data[i]) ELSE 0
        OutByte(j) ==
            LET g == (j - 1) \div 3
                k == (j - 1) % 3
                group == SextetAt(4 * g + 1) * Pow64(3) + SextetAt(4 * g + 2) * Pow64(2)
                         + SextetAt(4 * g + 3) * 64 + SextetAt(4 * g + 4)
            IN  (group \div (CASE k = 0 -> 256 * 256 [] k = 1 -> 256 [] k = 2 -> 1)) % 256
        size == 3 * (count \div 4) + (CASE (count % 4) = 3 -> 2 [] (count % 4) = 2 -> 1 [] OTHER -> 0)
    IN  IF (count % 4) # 0 /\ ~ended
        THEN Raise("binascii.Error")
        ELSE PyBytes([j \in 1..size |-> OutByte(j)])

(***************************************************************************)
(* JSON text: json.dumps and json.loads. Numbers are integers and strings  *)
(* hold printable ASCII, so that the only escapes are \" and \\.           *)
(***************************************************************************)
DigitChars == <<"0", "1", "2", "3", "4", "5", "6", "7", "8", "9">>
IsDigit(c) == \E i \in 1..Len(DigitChars) : DigitChars[i] = c
DigitOf(c) == (CHOOSE i \in 1..Len(DigitChars) : DigitChars[i] = c) - 1

RECURSIVE Digits(_)
Digits(n) ==
    IF n < 10 THEN <<DigitChars[n + 1]>>
    ELSE Append(Digits(n \div 10), DigitChars[(n % 10) + 1])

IntText(n) == IF n < 0 THEN <<"-">> \o Digits(0 - n) ELSE Digits(n)

EscapeChar(c) ==
    IF c = "\"" THEN <<"\\", "\"">>
    ELSE IF c = "\\" THEN <<"\\", "\\">>
    ELSE <<c>>

\* sep.join(parts)
RECURSIVE Join(_, _)
Join(parts, sep) ==
    IF Len(parts) = 0 THEN <<>>
    ELSE IF Len(parts) = 1 THEN parts[1]
    ELSE parts[1] \o sep \o Join(Tail(parts), sep)

StringText(chars) ==
    <<"\"">> \o Join([i \in 1..Len(chars) |-> EscapeChar(chars[i])], <<>>) \o <<"\"">>

\* json.dumps(x) with the default separators ", " and ": "
RECURSIVE json_dumps(_)
json_dumps(x) ==
    CASE Kind(x) = "null" -> <<"n", "u", "l", "l">>
      [] Kind(x) = "bool" -> IF Val(x) THEN <<"t", "r", "u", "e">> ELSE <<"f", "a", "l", "s", "e">>
      [] Kind(x) = "num" -> IntText(Val(x))
      [] Kind(x) = "str" -> StringText(Val(x))
      [] Kind(x) = "list" ->
            <<"[">> \o Join([i \in 1..Len(Val(x)) |-> json_dumps(Val(x)[i])], <<",", " ">>) \o <<"]">>
      [] Kind(x) = "dict" ->
            <<"{">> \o Join([i \in 1..Len(Val(x)) |->
                                StringText(KeyChars(Val(x)[i][1])) \o <<":", " ">>
                                \o json_dumps(Val(x)[i][2])], <<",", " ">>) \o <<"}">>

\* the character at position i, "" past the end
CharAt(s, i) == IF i >= 1 /\ i <= Len(s) THEN s[i] ELSE ""

\* the first position from i on that holds no whitespace
SkipSpace(s, i) ==
    CHOOSE j \in i..(Len(s) + 1) :
        /\ \A k \in i..(j - 1) : s[k] \in Whitespace
        /\ CharAt(s, j) \notin Whitespace

\* a parse gives the value and the position after it; a failure gives the
\* exception as the value
JsonError == [val |-> Raise("JSONDecodeError"), pos |-> 0]

\* the backslashes that stand right before position k
BackslashesBefore(s, k) ==
    Cardinality({m \in 1..(k - 1) : \A j \in m..(k - 1) : s[j] = "\\"})

IsEscaped(s, k) == (BackslashesBefore(s, k) % 2) = 1

\* the string that opens at position i
ParseString(s, i) ==
    LET closing == {j \in (i + 1)..Len(s) : s[j] = "\"" /\ ~IsEscaped(s, j)}
    IN  IF closing = {} THEN JsonError
        ELSE LET end == CHOOSE j \in closing : \A m \in closing : j <= m
                 kept == {k \in (i + 1)..(end - 1) : ~(s[k] = "\\" /\ ~IsEscaped(s, k))}
                 escaped == {k \in kept : IsEscaped(s, k)}
                 Nth(n) == CHOOSE k \in kept : Cardinality({m \in kept : m <= k}) = n
             IN  IF \E k \in escaped : s[k] \notin {"\"", "\\", "/"}
                 THEN JsonError
                 ELSE [val |-> PyStr([n \in 1..Cardinality(kept) |-> s[Nth(n)]]),
                       pos |-> end + 1]

RECURSIVE NumberOf(_)
NumberOf(digits) ==
    IF Len(digits) = 0 THEN 0
    ELSE 10 * NumberOf(SubSeq(digits, 1, Len(digits) - 1)) + DigitOf(digits[Len(digits)])

\* the integer that opens at position i
ParseInt(s, i) ==
    LET first == IF s[i] = "-" THEN i + 1 ELSE i
        end == IF CharAt(s, first) = "0" THEN first + 1
               ELSE CHOOSE j \in first..(Len(s) + 1) :
                        /\ \A k \in first..(j - 1) : IsDigit(s[k])
                        /\ ~IsDigit(CharAt(s, j))
        n == NumberOf(SubSeq(s, first, end - 1))
    IN  IF end = first THEN JsonError
        ELSE [val |-> PyNum(IF first > i THEN 0 - n ELSE n), pos |-> end]

\* the literal word at position i
IsWord(s, i, word) == i + Len(word) - 1 <= Len(s) /\ SubSeq(s, i, i + Len(word) - 1) = word

\* the key of a member: the key literal its characters spell
KeyOf(chars) ==
    IF \E key \in Keys : KeyChars(key) = chars
    THEN CHOOSE key \in Keys : KeyChars(key) = chars
    ELSE "?"

\* d[key] = value: a key the mapping holds keeps its place
SetItem(items, key, value) ==
    IF \E i \in 1..Len(items) : items[i][1] = key
    THEN [i \in 1..Len(items) |-> IF items[i][1] = key THEN <<key, value>> ELSE items[i]]
    ELSE Append(items, <<key, value>>)

RECURSIVE ParseValue(_, _)
RECURSIVE ParseElements(_, _, _)
RECURSIVE ParseMembers(_, _, _)

ParseValue(s, from) ==
    LET i == SkipSpace(s, from)
        c == CharAt(s, i)
    IN  CASE c = "{" -> ParseMembers(s, i + 1, <<>>)
          [] c = "[" -> ParseElements(s, i + 1, <<>>)
          [] c = "\"" -> ParseString(s, i)
          [] c = "-" \/ IsDigit(c) -> ParseInt(s, i)
          [] IsWord(s, i, <<"t", "r", "u", "e">>) -> [val |-> PyBool(TRUE), pos |-> i + 4]
          [] IsWord(s, i, <<"f", "a", "l", "s", "e">>) -> [val |-> PyBool(FALSE), pos |-> i + 5]
          [] IsWord(s, i, <<"n", "u", "l", "l">>) -> [val |-> PyNone, pos |-> i + 4]
          [] OTHER -> JsonError

\* the elements of a list, after its "[" or after a ","
ParseElements(s, from, acc) ==
    LET i == SkipSpace(s, from)
    IN  IF CharAt(s, i) = "]" /\ acc = <<>>
        THEN [val |-> PyList(acc), pos |-> i + 1]
        ELSE LET element == ParseValue(s, i)
                 j == SkipSpace(s, element.pos)
             IN  IF IsRaise(element.val) THEN element
                 ELSE IF CharAt(s, j) = ","
                 THEN ParseElements(s, j + 1, Append(acc, element.val))
                 ELSE IF CharAt(s, j) = "]"
                 THEN [val |-> PyList(Append(acc, element.val)), pos |-> j + 1]
                 ELSE JsonError

\* the members of a mapping, after its "{" or after a ","
ParseMembers(s, from, acc) ==
    LET i == SkipSpace(s, from)
    IN  IF CharAt(s, i) = "}" /\ acc = <<>>
        THEN [val |-> PyDict(acc), pos |-> i + 1]
        ELSE IF CharAt(s, i) # "\"" THEN JsonError
        ELSE LET key == ParseString(s, i)
                 colon == SkipSpace(s, key.pos)
                 member == ParseValue(s, colon + 1)
                 j == SkipSpace(s, member.pos)
                 items == SetItem(acc, KeyOf(Val(key.val)), member.val)
             IN  IF IsRaise(key.val) THEN key
                 ELSE IF CharAt(s, colon) # ":" THEN JsonError
                 ELSE IF IsRaise(member.val) THEN member
                 ELSE IF CharAt(s, j) = ","
                 THEN ParseMembers(s, j + 1, items)
                 ELSE IF CharAt(s, j) = "}"
                 THEN [val |-> PyDict(items), pos |-> j + 1]
                 ELSE JsonError

\* json.loads(text): the value, or JSONDecodeError
json_loads(text) ==
    LET parsed == ParseValue(text, 1)
    IN  IF IsRaise(parsed.val) THEN parsed.val
        ELSE IF SkipSpace(text, parsed.pos) = Len(text) + 1 THEN parsed.val
        ELSE Raise("JSONDecodeError")

(***************************************************************************)
(* The remote service: responses                                           *)
(***************************************************************************)
\* the call raised (connection error, timeout)
TransportError == [error |-> "transport"]
Http(status, body) == [status |-> status, body |-> body]
\* a body that is no JSON: response.json() raises
Invalid == [invalid |-> 0]

IsError(response) == DOMAIN response = {"error"}
\* response.status_code == 200, of a call that returned
StatusOk(response) == ~IsError(response) /\ response.status = 200

Ch(c) == PyStr(<<c>>)
Obj1(key, value) == PyDict(<< <<key, value>> >>)

Statuses == {TransportError, Http(200, PyDict(<<>>)), Http(500, PyDict(<<>>))}
HealthResponses == Statuses \cup {Http(403, PyDict(<<>>))}
SetDefaultResponses == Statuses \cup {Http(404, PyDict(<<>>))}

\* an exception, or a status with a body: a failure status can carry any body
WithBodies(bodies) ==
    {TransportError} \cup {Http(200, b) : b \in bodies} \cup {Http(500, b) : b \in bodies}

GuestBodies ==
    {Obj1("auth_token", Obj1("token", Ch("T"))),
     Obj1("auth_token", PyDict(<<>>)),
     Obj1("auth_token", Obj1("token", PyNone)),
     Obj1("auth_token", PyNone),
     Obj1("token", Ch("U")),
     PyDict(<<>>),
     Invalid}
AutocompleteBodies ==
    {PyList(<<>>),
     PyList(<<Obj1("google_place_id", Ch("P")), Obj1("google_place_id", Ch("Q"))>>),
     PyList(<<Obj1("printable_address", Ch("A")), Obj1("google_place_id", Ch("Q"))>>),
     PyList(<<Obj1("google_place_id", PyNone)>>),
     Obj1("google_place_id", Ch("P"))}
DetailBodies ==
    {PyDict(<< <<"lat", PyNum(4)>>, <<"lng", PyNum(7)>> >>),
     PyDict(<< <<"lat", PyNum(0)>>, <<"lng", PyNum(7)>> >>),
     PyDict(<< <<"lat", PyNum(4)>>, <<"lng", PyNone>> >>),
     Obj1("lat", PyNum(4)),
     PyDict(<<>>)}
AddressBodies == {Obj1("id", Ch("I")), Obj1("id", PyNone), PyDict(<<>>)}
HomeDocuments ==
    {Wrapped(<<N_Unrelated, N_SectionXYZ>>),
     ListOf(<<N_Pizza>>),
     ListOf(<<N_SectionEmptyTok>>),
     ListOf(<<N_NullTitle, N_SectionABC>>),
     PyDict(<<>>),
     PyList(<<>>)}
FeedDocuments ==
    {ListOf(<<N_Pizza, N_PizzaLc, N_Tacos>>),
     ListOf(<<N_Pi>>),
     ListOf(<<N_NullSubtitle>>),
     PyDict(<<>>)}

(***************************************************************************)
(* OptimizedDoorDashFlow (src/Now_on_doordash.py): the step methods.       *)
(* Each gives what the method returns, whether it dispatched its request,  *)
(* and the fields it assigns, for the response its request receives.       *)
(***************************************************************************)
\* (a variant without the test)
NoCredential_Never == FALSE

\* if not self.jwt_token
NoCredential == ~Truthy(jwt_token)
\* if not self.lat or not self.lng
NoCoordinates == ~Truthy(lat) \/ ~Truthy(lng)

\* (a variant that draws a new request id at each update of the headers)
IdHeaders_NewRequestId(n) ==
    [x_session_id |-> ids.session_id,
     x_correlation_id |-> ids.correlation_id,
     x_client_request_id |-> IF n = 1 THEN ids.client_request_id ELSE "new",
     device_id |-> ids.device_id,
     dd_session_id |-> IF flow = "guest" THEN n ELSE 0]

\* update_session_headers: the identifier headers written from the fields at the
\* n-th call: X-Session-Id, X-Correlation-Id, X-Client-Request-Id, the device
\* id (X-Device-Id, resp. dd_device_id of DD-IDs) and, in the guest flow,
\* the dd_session_id of DD-IDs, drawn anew at each call (the n-th uuid)
IdHeaders(n) ==
    [x_session_id |-> ids.session_id,
     x_correlation_id |-> ids.correlation_id,
     x_client_request_id |-> ids.client_request_id,
     device_id |-> ids.device_id,
     dd_session_id |-> IF flow = "guest" THEN n ELSE 0]

\* update_session_headers: Authorization is (re)written when jwt_token is set
update_session_headers(token) == IF Truthy(token) THEN [jwt |-> token] ELSE authorization

step_1_health_check(response) ==
    [ret |-> PyBool(IF IsError(response) THEN TRUE ELSE response.status = 200),
     dispatched |-> TRUE]

\* data['auth_token']['token'] when 'auth_token' in data and 'token' in
\* data['auth_token'] and the subscripts do not raise; else Absent
NestedToken(data) ==
    IF Kind(data) = "invalid" THEN Absent
    ELSE IF PyIn("auth_token", data) # "yes" \/ Kind(data) # "dict" THEN Absent
    ELSE LET auth_token == Get(data, "auth_token") IN
         IF PyIn("token", auth_token) # "yes" \/ Kind(auth_token) # "dict" THEN Absent
         ELSE Get(auth_token, "token")

step_2_create_guest(response) ==
    LET token == IF StatusOk(response) THEN NestedToken(response.body) ELSE Absent
    IN  IF Kind(token) = "absent"
        THEN [ret |-> PyBool(FALSE), dispatched |-> TRUE,
              jwt_token |-> jwt_token, authorization |-> authorization,
              id_headers |-> id_headers]
        ELSE [ret |-> PyBool(TRUE), dispatched |-> TRUE,
              jwt_token |-> token, authorization |-> update_session_headers(token),
              id_headers |-> IdHeaders(2)]

\* (a variant whose request is outside the try block)
step_8_get_addresses_NoTry(response) ==
    IF NoCredential THEN [ret |-> PyBool(FALSE), dispatched |-> FALSE]
    ELSE IF IsError(response) THEN [ret |-> Raise("ConnectionError"), dispatched |-> TRUE]
    ELSE [ret |-> PyBool(StatusOk(response)), dispatched |-> TRUE]

step_8_get_addresses(response) ==
    IF NoCredential THEN [ret |-> PyBool(FALSE), dispatched |-> FALSE]
    ELSE [ret |-> PyBool(StatusOk(response)), dispatched |-> TRUE]

FirstPlaceId_Last(response) ==
    IF ~StatusOk(response) THEN PyNone
    ELSE LET data == response.body IN
         IF Kind(data) # "list" \/ ~Truthy(data) THEN PyNone
         ELSE LET last_address == Val(data)[Len(Val(data))] IN
              IF Kind(last_address) # "dict" THEN PyNone
              ELSE LET id == GetOrNone(last_address, "google_place_id") IN
                   IF Truthy(id) THEN id ELSE PyNone

\* the place_id the autocomplete response yields: google_place_id of data[0]
\* when data is a non-empty list, data[0] a mapping and the id truthy; else None
FirstPlaceId(response) ==
    IF ~StatusOk(response) THEN PyNone
    ELSE LET data == response.body IN
         IF Kind(data) # "list" \/ ~Truthy(data) THEN PyNone
         ELSE LET first_address == Val(data)[1] IN
              IF Kind(first_address) # "dict" THEN PyNone
              ELSE LET id == GetOrNone(first_address, "google_place_id") IN
                   IF Truthy(id) THEN id ELSE PyNone

step_9_address_autocomplete(response) ==
    IF NoCredential THEN [ret |-> PyNone, dispatched |-> FALSE]
    ELSE [ret |-> FirstPlaceId(response), dispatched |-> TRUE]

\* (a variant that returns None for coordinates that are missing)
step_10_address_details_NoneOnMissing(response) ==
    IF NoCredential THEN [ret |-> PyBool(FALSE), dispatched |-> FALSE, lat |-> lat, lng |-> lng]
    ELSE IF ~StatusOk(response) \/ Kind(response.body) # "dict"
    THEN [ret |-> PyBool(FALSE), dispatched |-> TRUE, lat |-> lat, lng |-> lng]
    ELSE LET data == response.body
             newlat == GetOrNone(data, "lat")
             newlng == GetOrNone(data, "lng")
         IN  [ret |-> IF Kind(newlat) = "null" \/ Kind(newlng) = "null" THEN PyNone ELSE PyBool(TRUE),
              dispatched |-> TRUE, lat |-> newlat, lng |-> newlng]

step_10_address_details(response) ==
    IF NoCredential THEN [ret |-> PyBool(FALSE), dispatched |-> FALSE, lat |-> lat, lng |-> lng]
    ELSE IF ~StatusOk(response) \/ Kind(response.body) # "dict"
    THEN [ret |-> PyBool(FALSE), dispatched |-> TRUE, lat |-> lat, lng |-> lng]
    ELSE LET data == response.body
             newlat == GetOrNone(data, "lat")
             newlng == GetOrNone(data, "lng")
         IN  [ret |-> PyBool(~(Kind(newlat) = "null" \/ Kind(newlng) = "null")),
              dispatched |-> TRUE, lat |-> newlat, lng |-> newlng]

step_11_validate_address(response) ==
    IF NoCredential THEN [ret |-> PyBool(FALSE), dispatched |-> FALSE]
    ELSE [ret |-> PyBool(StatusOk(response)), dispatched |-> TRUE]

\* data['id'] when the status is 200 and 'id' in data; else Absent
AddressId(response) ==
    IF ~StatusOk(response) THEN Absent
    ELSE LET data == response.body IN
         IF Kind(data) = "invalid" THEN Absent
         ELSE IF PyIn("id", data) # "yes" \/ Kind(data) # "dict" THEN Absent
         ELSE Get(data, "id")

\* (a variant that stores the id before it looks at the status)
step_12_add_address_AssignEarly(response) ==
    IF NoCredential
    THEN [ret |-> PyBool(FALSE), dispatched |-> FALSE, address_id |-> address_id]
    ELSE LET data == IF IsError(response) THEN Invalid ELSE response.body
             id == IF Kind(data) = "dict" /\ HasKey(data, "id") THEN Get(data, "id") ELSE Absent
         IN  IF Kind(id) = "absent"
             THEN [ret |-> PyBool(FALSE), dispatched |-> TRUE, address_id |-> address_id]
             ELSE [ret |-> PyBool(StatusOk(response)), dispatched |-> TRUE, address_id |-> id]

step_12_add_address(response) ==
    IF NoCredential
    THEN [ret |-> PyBool(FALSE), dispatched |-> FALSE, address_id |-> address_id]
    ELSE LET id == AddressId(response) IN
         IF Kind(id) = "absent"
         THEN [ret |-> PyBool(FALSE), dispatched |-> TRUE, address_id |-> address_id]
         ELSE [ret |-> PyBool(TRUE), dispatched |-> TRUE, address_id |-> id]

\* 200, 404, any other status and an exception all return True
step_13_set_default_address(response) ==
    IF NoCredential \/ ~Truthy(address_id) THEN [ret |-> PyBool(FALSE), dispatched |-> FALSE]
    ELSE [ret |-> PyBool(TRUE), dispatched |-> TRUE]

\* data = response.json() when the status is 200, else None
FeedData(response) ==
    IF StatusOk(response) /\ Kind(response.body) # "invalid" THEN response.body ELSE PyNone

step_14_homepage_feed(response) ==
    IF NoCoordinates THEN [ret |-> PyNone, dispatched |-> FALSE]
    ELSE [ret |-> FeedData(response), dispatched |-> TRUE]

\* the default cursor for general content
default_cursor ==
    PyDict(<< <<"offset", PyNum(0)>>,
              <<"content_ids", PyList(<<PyStr(<<"1", "0", "8", "2", "1", "5", "1", "1">>),
                                        PyStr(<<"2", "7", "4", "6", "0", "3", "0", "6">>),
                                        PyStr(<<"3", "3", "9", "1", "7", "1", "6", "7">>)>>)>>,
              <<"request_parent_id",
                PyStr(<<"D", "E", "F", "A", "U", "L", "T", "_", "H", "O", "M", "E", "P", "A", "G", "E">>)>>,
              <<"request_child_id",
                PyStr(<<"c", "a", "r", "o", "u", "s", "e", "l", ".", "s", "t", "a", "n", "d", "a", "r", "d", ":", "s", "t", "o", "r", "e", "_", "c", "a", "r", "o", "u", "s", "e", "l", ":", "e", "t", "a">>)>>,
              <<"cross_vertical_page_type",
                PyStr(<<"D", "E", "F", "A", "U", "L", "T", "_", "H", "O", "M", "E", "P", "A", "G", "E">>)>>,
              <<"page_stack_trace", PyList(<<>>)>>,
              <<"vertical_ids", PyList(<<>>)>>,
              <<"baseCursor",
                PyDict(<< <<"page_id", PyStr(<<"e", "t", "a">>)>>,
                          <<"page_type",
                            PyStr(<<"S", "T", "O", "R", "E", "_", "C", "A", "R", "O", "U", "S", "E", "L", "_", "L", "A", "N", "D", "I", "N", "G">>)>>,
                          <<"cursor_version", PyStr(<<"F", "A", "C", "E", "T">>)>> >>)>> >>)

\* cursor_json = json.dumps(cursor); cursor_b64 = base64.b64encode(cursor_json.encode()).decode()
CursorToken(cursor_dict) ==
    LET cursor_json == json_dumps(cursor_dict)
    IN  Decode(Val(b64encode(Val(Encode(cursor_json)))))

\* cursor_b64: the base-64 of the JSON text of default_cursor
cursor_b64 == CursorToken(default_cursor)

\* params["id"]: the provided cursor, or the default one
CursorParam(cursor_id) == IF Truthy(cursor_id) THEN cursor_id ELSE cursor_b64

step_15_content_feed(cursor_id, response) ==
    IF NoCoordinates THEN [ret |-> PyNone, dispatched |-> FALSE]
    ELSE [ret |-> FeedData(response), dispatched |-> TRUE]

(***************************************************************************)
(* DoorDashGuestFlow (src/doordash_guest_flow.py): the step methods        *)
(***************************************************************************)
\* a 403 is retried once; the last response decides; an exception is False
guest_step_1_health_check(response, retry) ==
    IF IsError(response) THEN [ret |-> PyBool(FALSE), dispatched |-> TRUE, retried |-> FALSE]
    ELSE IF response.status = 403
    THEN [ret |-> PyBool(StatusOk(retry)), dispatched |-> TRUE, retried |-> TRUE]
    ELSE [ret |-> PyBool(response.status = 200), dispatched |-> TRUE, retried |-> FALSE]

\* data['auth_token']['token'], else data['token'], else Absent
NestedOrTopToken(data) ==
    IF Kind(data) = "invalid" \/ PyIn("auth_token", data) = "raise" THEN Absent
    ELSE LET top == IF PyIn("token", data) = "yes" /\ Kind(data) = "dict"
                    THEN Get(data, "token") ELSE Absent
         IN  IF PyIn("auth_token", data) = "no" THEN top
             ELSE IF Kind(data) # "dict" THEN Absent
             ELSE LET auth_token == Get(data, "auth_token") IN
                  CASE PyIn("token", auth_token) = "raise" -> Absent
                    [] PyIn("token", auth_token) = "no" -> top
                    [] OTHER -> IF Kind(auth_token) = "dict"
                                THEN Get(auth_token, "token") ELSE Absent

step_2_create_guest_user(response) ==
    LET token == IF StatusOk(response) THEN NestedOrTopToken(response.body) ELSE Absent
    IN  IF Kind(token) = "absent"
        THEN [ret |-> PyBool(FALSE), dispatched |-> TRUE,
              jwt_token |-> jwt_token, authorization |-> authorization,
              id_headers |-> id_headers]
        ELSE [ret |-> PyBool(TRUE), dispatched |-> TRUE,
              jwt_token |-> token, authorization |-> update_session_headers(token),
              id_headers |-> IdHeaders(2)]

step_3_get_experiments(response) == [ret |-> PyBool(StatusOk(response)), dispatched |-> TRUE]
step_4_register_device(response) == [ret |-> PyBool(StatusOk(response)), dispatched |-> TRUE]
step_5_privacy_consents(response) == [ret |-> PyBool(StatusOk(response)), dispatched |-> TRUE]
step_6_get_user_profile(response) == [ret |-> PyBool(StatusOk(response)), dispatched |-> TRUE]
step_7_update_language(response) == [ret |-> PyBool(StatusOk(response)), dispatched |-> TRUE]
guest_step_8_get_addresses(response) == [ret |-> PyBool(StatusOk(response)), dispatched |-> TRUE]

guest_step_9_address_autocomplete(response) ==
    [ret |-> FirstPlaceId(response), dispatched |-> TRUE]

\* returns data when 'lat' in data and 'lng' in data, None otherwise
step_10_get_address_details(response) ==
    LET data == IF StatusOk(response) THEN response.body ELSE Invalid
    IN  IF Kind(data) = "dict" /\ HasKey(data, "lat") /\ HasKey(data, "lng")
        THEN [ret |-> data, dispatched |-> TRUE,
              lat |-> Get(data, "lat"), lng |-> Get(data, "lng")]
        ELSE [ret |-> PyNone, dispatched |-> TRUE, lat |-> lat, lng |-> lng]

guest_step_11_validate_address(response) ==
    [ret |-> PyBool(StatusOk(response)), dispatched |-> TRUE]

guest_step_12_add_address(response) ==
    LET id == AddressId(response) IN
    IF Kind(id) = "absent"
    THEN [ret |-> PyBool(FALSE), dispatched |-> TRUE, address_id |-> address_id]
    ELSE [ret |-> PyBool(TRUE), dispatched |-> TRUE, address_id |-> id]

guest_step_13_set_default_address(response) ==
    IF ~Truthy(address_id) THEN [ret |-> PyBool(FALSE), dispatched |-> FALSE]
    ELSE [ret |-> PyBool(StatusOk(response)), dispatched |-> TRUE]

guest_step_14_homepage_feed(response) ==
    IF NoCoordinates THEN [ret |-> PyNone, dispatched |-> FALSE]
    ELSE [ret |-> FeedData(response), dispatched |-> TRUE]

\* len(cursor_id) > 100
LongCursor == 100

\* decoded = base64.b64decode(cursor_id).decode(); cursor_data = json.loads(decoded),
\* for a cursor that is a string of more than 100 characters
CursorData(cursor_id) ==
    IF ~(Truthy(cursor_id) /\ Kind(cursor_id) = "str" /\ Len(Val(cursor_id)) > LongCursor)
    THEN NotRun
    ELSE LET bytes == b64decode(Val(cursor_id))
             decoded == IF IsRaise(bytes) THEN bytes ELSE Decode(Val(bytes))
         IN  IF IsRaise(decoded) THEN decoded ELSE json_loads(Val(decoded))

\* the method from its first request on, `data` being what decoding the
\* cursor gave. A cursor of more than 100 characters that decodes to a mapping
\* is sent first in a request of its own; when that request does not give a
\* 200 with a JSON body, or raises, the method goes on to the default request,
\* which sends the same cursor again. Any other cursor is sent once; without
\* a cursor the default one is sent.
ContentFeedAfterDecode(data, cursor_id, response, retry) ==
    IF NoCoordinates THEN [ret |-> PyNone, dispatched |-> FALSE, retried |-> FALSE]
    ELSE LET special == Kind(data) = "dict"
             fetched == StatusOk(response) /\ Kind(response.body) # "invalid"
         IN  IF special /\ ~fetched
             THEN [ret |-> FeedData(retry), dispatched |-> TRUE, retried |-> TRUE]
             ELSE [ret |-> FeedData(response), dispatched |-> TRUE, retried |-> FALSE]

guest_step_15_content_feed(cursor_id, response, retry) ==
    ContentFeedAfterDecode(CursorData(cursor_id), cursor_id, response, retry)

(***************************************************************************)
(* The flows: run_optimized_flow and DoorDashGuestFlow.run_complete_flow   *)
(***************************************************************************)
\* the statements of run_optimized_flow in order
OptimizedOrder_ValidateFirst ==
    <<"health", "create_guest", "addresses", "autocomplete", "validate_address",
      "address_details", "add_address", "set_default_address", "homepage_feed",
      "find_cursor", "content_feed", "extract", "done">>
OptimizedOrder ==
    <<"health", "create_guest", "addresses", "autocomplete", "address_details",
      "validate_address", "add_address", "set_default_address", "homepage_feed",
      "find_cursor", "content_feed", "extract", "done">>
GuestOrder ==
    <<"health", "create_guest", "experiments", "register_device", "privacy_consents",
      "user_profile", "update_language", "addresses", "autocomplete", "address_details",
      "validate_address", "add_address", "set_default_address", "homepage_feed",
      "content_feed", "done">>
Ops == {GuestOrder[i] : i \in 1..Len(GuestOrder)} \ {"done"}

OrderOf(f) == IF f = "optimized" THEN OptimizedOrder ELSE GuestOrder
\* the statement that follows the call of op in the flow's body
NextOp(f, op) ==
    LET order == OrderOf(f) IN order[(CHOOSE i \in 1..Len(order) : order[i] = op) + 1]

\* `if not <what the step returned>:` is not taken
Proceeds_Always(value) == TRUE
Proceeds(value) == Truthy(value)

\* what the flow returns where it gives up: None, or False in the guest flow
AbortResult_OfGuest(f) == PyBool(FALSE)
AbortResult(f) == IF f = "optimized" THEN PyNone ELSE PyBool(FALSE)

\* params of a feed request: lat, lng and, for the content feed, id
FeedParams(id) == [params |-> <<lat, lng, id>>]

Request(op, arg) == [op |-> op, auth |-> authorization, ids |-> id_headers, arg |-> arg]

\* the step method is called: its request, the response and the return value
Call(op, r, response, arg) ==
    /\ sent' = IF r.dispatched THEN Append(sent, Request(op, arg)) ELSE sent
    /\ resp' = [resp EXCEPT ![op] = IF r.dispatched THEN response ELSE NotRun]
    /\ ret' = [ret EXCEPT ![op] = r.ret]

\* the same of a step method that may send its request a second time
CallWithRetry(op, r, response, retry, arg) ==
    /\ sent' = sent \o (CASE ~r.dispatched -> <<>>
                          [] r.dispatched /\ r.retried -> <<Request(op, arg), Request(op, arg)>>
                          [] OTHER -> <<Request(op, arg)>>)
    /\ resp' = [resp EXCEPT ![op] = CASE ~r.dispatched -> NotRun
                                      [] r.dispatched /\ r.retried -> retry
                                      [] OTHER -> response]
    /\ ret' = [ret EXCEPT ![op] = r.ret]

\* (a variant in which a failed validation sends the flow back to detail resolution)
AbortUnless_TryAgain(op, value) ==
    IF Proceeds(value)
    THEN pc' = NextOp(flow, op) /\ UNCHANGED <<aborted, result>>
    ELSE IF op = "validate_address"
    THEN pc' = "address_details" /\ UNCHANGED <<aborted, result>>
    ELSE pc' = "done" /\ aborted' = op /\ result' = AbortResult(flow)

\* if not value: return <failure>
AbortUnless(op, value) ==
    IF Proceeds(value)
    THEN pc' = NextOp(flow, op) /\ UNCHANGED <<aborted, result>>
    ELSE pc' = "done" /\ aborted' = op /\ result' = AbortResult(flow)

Continue(op) == pc' = NextOp(flow, op) /\ UNCHANGED <<aborted, result>>

At(f, op) == flow = f /\ pc = op

(* run_optimized_flow *)
\* (a variant that gives up when the health probe fails)
Flow_health_Mandatory ==
    /\ At("optimized", "health")
    /\ \E response \in HealthResponses :
          LET r == step_1_health_check(response) IN
          /\ Call("health", r, response, Absent)
          /\ AbortUnless("health", r.ret)
    /\ UNCHANGED <<flow, ids, session, locals, dvars, cvars>>

Flow_health ==
    /\ At("optimized", "health")
    /\ \E response \in HealthResponses :
          Call("health", step_1_health_check(response), response, Absent)
    /\ Continue("health")
    /\ UNCHANGED <<flow, ids, session, locals, dvars, cvars>>

Flow_create_guest ==
    /\ At("optimized", "create_guest")
    /\ \E response \in WithBodies(GuestBodies) :
          LET r == step_2_create_guest(response) IN
          /\ Call("create_guest", r, response, Absent)
          /\ jwt_token' = r.jwt_token
          /\ authorization' = r.authorization
          /\ id_headers' = r.id_headers
          /\ AbortUnless("create_guest", r.ret)
    /\ UNCHANGED <<flow, ids, address_id, lat, lng, locals, dvars, cvars>>

Flow_addresses ==
    /\ At("optimized", "addresses")
    /\ \E response \in Statuses :
          LET r == step_8_get_addresses(response) IN
          /\ Call("addresses", r, response, Absent)
          /\ AbortUnless("addresses", r.ret)
    /\ UNCHANGED <<flow, ids, session, locals, dvars, cvars>>

Flow_autocomplete ==
    /\ At("optimized", "autocomplete")
    /\ \E response \in WithBodies(AutocompleteBodies) :
          LET r == step_9_address_autocomplete(response) IN
          /\ Call("autocomplete", r, response, Absent)
          /\ place_id' = r.ret
          /\ AbortUnless("autocomplete", r.ret)
    /\ UNCHANGED <<flow, ids, session, homepage_data, now_cursor, feed_data, flow_stores, dvars, cvars>>

Flow_address_details ==
    /\ At("optimized", "address_details")
    /\ \E response \in WithBodies(DetailBodies) :
          LET r == step_10_address_details(response) IN
          /\ Call("address_details", r, response, place_id)
          /\ lat' = r.lat
          /\ lng' = r.lng
          /\ AbortUnless("address_details", r.ret)
    /\ UNCHANGED <<flow, ids, jwt_token, authorization, address_id, id_headers, locals, dvars, cvars>>

Flow_validate_address ==
    /\ At("optimized", "validate_address")
    /\ \E response \in Statuses :
          LET r == step_11_validate_address(response) IN
          /\ Call("validate_address", r, response, place_id)
          /\ AbortUnless("validate_address", r.ret)
    /\ UNCHANGED <<flow, ids, session, locals, dvars, cvars>>

Flow_add_address ==
    /\ At("optimized", "add_address")
    /\ \E response \in WithBodies(AddressBodies) :
          LET r == step_12_add_address(response) IN
          /\ Call("add_address", r, response, place_id)
          /\ address_id' = r.address_id
          /\ AbortUnless("add_address", r.ret)
    /\ UNCHANGED <<flow, ids, jwt_token, authorization, lat, lng, id_headers, locals, dvars, cvars>>

\* (a variant that gives up when set-default-address fails)
Flow_set_default_address_Mandatory ==
    /\ At("optimized", "set_default_address")
    /\ \E response \in SetDefaultResponses :
          LET r == step_13_set_default_address(response) IN
          /\ Call("set_default_address", r, response, address_id)
          /\ AbortUnless("set_default_address", r.ret)
    /\ UNCHANGED <<flow, ids, session, locals, dvars, cvars>>

\* the flow goes on whatever the step returned
Flow_set_default_address ==
    /\ At("optimized", "set_default_address")
    /\ \E response \in SetDefaultResponses :
          Call("set_default_address", step_13_set_default_address(response), response, address_id)
    /\ Continue("set_default_address")
    /\ UNCHANGED <<flow, ids, session, locals, dvars, cvars>>

Flow_homepage_feed ==
    /\ At("optimized", "homepage_feed")
    /\ \E response \in WithBodies(HomeDocuments \cup {Invalid}) :
          LET r == step_14_homepage_feed(response) IN
          /\ Call("homepage_feed", r, response, FeedParams(Absent))
          /\ homepage_data' = r.ret
          /\ AbortUnless("homepage_feed", r.ret)
    /\ UNCHANGED <<flow, ids, session, place_id, now_cursor, feed_data, flow_stores, dvars, cvars>>

\* an exception of the search leaves the flow
Flow_find_cursor ==
    /\ At("optimized", "find_cursor")
    /\ LET found == find_now_on_doordash_cursor(homepage_data) IN
       IF IsRaise(found)
       THEN /\ pc' = "done"
            /\ result' = found
            /\ UNCHANGED <<now_cursor, aborted>>
       ELSE /\ now_cursor' = found
            /\ Continue("find_cursor")
    /\ UNCHANGED <<flow, ids, session, place_id, homepage_data, feed_data, flow_stores,
                   sent, ret, resp, dvars, cvars>>

\* step_15_content_feed(now_cursor) if now_cursor, else step_15_content_feed()
Flow_content_feed ==
    /\ At("optimized", "content_feed")
    /\ \E response \in WithBodies(FeedDocuments \cup {Invalid}) :
          LET cursor_id == IF Truthy(now_cursor) THEN now_cursor ELSE PyNone
              r == step_15_content_feed(cursor_id, response)
          IN  /\ Call("content_feed", r, response, FeedParams(CursorParam(cursor_id)))
              /\ feed_data' = r.ret
              /\ AbortUnless("content_feed", r.ret)
    /\ UNCHANGED <<flow, ids, session, place_id, homepage_data, now_cursor, flow_stores, dvars, cvars>>

\* (a variant that returns the list as it is)
Flow_extract_ReturnsList ==
    /\ At("optimized", "extract")
    /\ LET extracted == extract_stores_from_feed(feed_data,
                            IF Truthy(now_cursor) THEN "Now on DoorDash" ELSE "General Feed")
       IN  /\ flow_stores' = extracted
           /\ result' = extracted
    /\ pc' = "done"
    /\ UNCHANGED <<flow, ids, session, place_id, homepage_data, now_cursor, feed_data,
                   aborted, sent, ret, resp, dvars, cvars>>

\* stores = extract_stores_from_feed(...); return stores if stores, else None
Flow_extract ==
    /\ At("optimized", "extract")
    /\ LET extracted == extract_stores_from_feed(feed_data,
                            IF Truthy(now_cursor) THEN "Now on DoorDash" ELSE "General Feed")
       IN  /\ flow_stores' = extracted
           /\ result' = IF IsRaise(extracted) \/ Truthy(extracted) THEN extracted ELSE PyNone
    /\ pc' = "done"
    /\ UNCHANGED <<flow, ids, session, place_id, homepage_data, now_cursor, feed_data,
                   aborted, sent, ret, resp, dvars, cvars>>

(* DoorDashGuestFlow.run_complete_flow *)
Guest_health ==
    /\ At("guest", "health")
    /\ \E response \in HealthResponses, retry \in HealthResponses :
          LET r == guest_step_1_health_check(response, retry) IN
          /\ sent' = sent \o (IF r.retried
                              THEN <<Request("health", Absent), Request("health", Absent)>>
                              ELSE <<Request("health", Absent)>>)
          /\ resp' = [resp EXCEPT !["health"] = IF r.retried THEN retry ELSE response]
          /\ ret' = [ret EXCEPT !["health"] = r.ret]
          /\ AbortUnless("health", r.ret)
    /\ UNCHANGED <<flow, ids, session, locals, dvars, cvars>>

Guest_create_guest ==
    /\ At("guest", "create_guest")
    /\ \E response \in WithBodies(GuestBodies) :
          LET r == step_2_create_guest_user(response) IN
          /\ Call("create_guest", r, response, Absent)
          /\ jwt_token' = r.jwt_token
          /\ authorization' = r.authorization
          /\ id_headers' = r.id_headers
          /\ AbortUnless("create_guest", r.ret)
    /\ UNCHANGED <<flow, ids, address_id, lat, lng, locals, dvars, cvars>>

Guest_experiments ==
    /\ At("guest", "experiments")
    /\ \E response \in Statuses :
          LET r == step_3_get_experiments(response) IN
          /\ Call("experiments", r, response, Absent)
          /\ AbortUnless("experiments", r.ret)
    /\ UNCHANGED <<flow, ids, session, locals, dvars, cvars>>

Guest_register_device ==
    /\ At("guest", "register_device")
    /\ \E response \in Statuses :
          LET r == step_4_register_device(response) IN
          /\ Call("register_device", r, response, Absent)
          /\ AbortUnless("register_device", r.ret)
    /\ UNCHANGED <<flow, ids, session, locals, dvars, cvars>>

Guest_privacy_consents ==
    /\ At("guest", "privacy_consents")
    /\ \E response \in Statuses :
          LET r == step_5_privacy_consents(response) IN
          /\ Call("privacy_consents", r, response, Absent)
          /\ AbortUnless("privacy_consents", r.ret)
    /\ UNCHANGED <<flow, ids, session, locals, dvars, cvars>>

Guest_user_profile ==
    /\ At("guest", "user_profile")
    /\ \E response \in Statuses :
          LET r == step_6_get_user_profile(response) IN
          /\ Call("user_profile", r, response, Absent)
          /\ AbortUnless("user_profile", r.ret)
    /\ UNCHANGED <<flow, ids, session, locals, dvars, cvars>>

Guest_update_language ==
    /\ At("guest", "update_language")
    /\ \E response \in Statuses :
          LET r == step_7_update_language(response) IN
          /\ Call("update_language", r, response, Absent)
          /\ AbortUnless("update_language", r.ret)
    /\ UNCHANGED <<flow, ids, session, locals, dvars, cvars>>

Guest_addresses ==
    /\ At("guest", "addresses")
    /\ \E response \in Statuses :
          LET r == guest_step_8_get_addresses(response) IN
          /\ Call("addresses", r, response, Absent)
          /\ AbortUnless("addresses", r.ret)
    /\ UNCHANGED <<flow, ids, session, locals, dvars, cvars>>

Guest_autocomplete ==
    /\ At("guest", "autocomplete")
    /\ \E response \in WithBodies(AutocompleteBodies) :
          LET r == guest_step_9_address_autocomplete(response) IN
          /\ Call("autocomplete", r, response, Absent)
          /\ place_id' = r.ret
          /\ AbortUnless("autocomplete", r.ret)
    /\ UNCHANGED <<flow, ids, session, homepage_data, now_cursor, feed_data, flow_stores, dvars, cvars>>

Guest_address_details ==
    /\ At("guest", "address_details")
    /\ \E response \in WithBodies(DetailBodies) :
          LET r == step_10_get_address_details(response) IN
          /\ Call("address_details", r, response, place_id)
          /\ lat' = r.lat
          /\ lng' = r.lng
          /\ AbortUnless("address_details", r.ret)
    /\ UNCHANGED <<flow, ids, jwt_token, authorization, address_id, id_headers, locals, dvars, cvars>>

Guest_validate_address ==
    /\ At("guest", "validate_address")
    /\ \E response \in Statuses :
          LET r == guest_step_11_validate_address(response) IN
          /\ Call("validate_address", r, response, place_id)
          /\ AbortUnless("validate_address", r.ret)
    /\ UNCHANGED <<flow, ids, session, locals, dvars, cvars>>

Guest_add_address ==
    /\ At("guest", "add_address")
    /\ \E response \in WithBodies(AddressBodies) :
          LET r == guest_step_12_add_address(response) IN
          /\ Call("add_address", r, response, place_id)
          /\ address_id' = r.address_id
          /\ AbortUnless("add_address", r.ret)
    /\ UNCHANGED <<flow, ids, jwt_token, authorization, lat, lng, id_headers, locals, dvars, cvars>>

Guest_set_default_address ==
    /\ At("guest", "set_default_address")
    /\ \E response \in SetDefaultResponses :
          LET r == guest_step_13_set_default_address(response) IN
          /\ Call("set_default_address", r, response, address_id)
          /\ AbortUnless("set_default_address", r.ret)
    /\ UNCHANGED <<flow, ids, session, locals, dvars, cvars>>

Guest_homepage_feed ==
    /\ At("guest", "homepage_feed")
    /\ \E response \in WithBodies(HomeDocuments \cup {Invalid}) :
          LET r == guest_step_14_homepage_feed(response) IN
          /\ Call("homepage_feed", r, response, FeedParams(Absent))
          /\ homepage_data' = r.ret
          /\ AbortUnless("homepage_feed", r.ret)
    /\ UNCHANGED <<flow, ids, session, place_id, now_cursor, feed_data, flow_stores, dvars, cvars>>

\* the last step: False when the feed is falsy, True otherwise
Guest_content_feed ==
    /\ At("guest", "content_feed")
    /\ \E response \in WithBodies(FeedDocuments \cup {Invalid}), retry \in Statuses :
          LET r == guest_step_15_content_feed(PyNone, response, retry) IN
          /\ CallWithRetry("content_feed", r, response, retry, FeedParams(CursorParam(PyNone)))
          /\ feed_data' = r.ret
          /\ IF Proceeds(r.ret)
             THEN pc' = "done" /\ result' = PyBool(TRUE) /\ UNCHANGED aborted
             ELSE AbortUnless("content_feed", r.ret)
    /\ UNCHANGED <<flow, ids, session, place_id, homepage_data, now_cursor, flow_stores, dvars, cvars>>

(***************************************************************************)
(* The specifications                                                      *)
(***************************************************************************)
\* str(uuid.uuid4()) drawn when the flow object is made
IdSets ==
    {[session_id |-> "s1", device_id |-> "d1", correlation_id |-> "c1", client_request_id |-> "r1"],
     [session_id |-> "s2", device_id |-> "d2", correlation_id |-> "c2", client_request_id |-> "r2"]}

NoIds == [session_id |-> "", device_id |-> "", correlation_id |-> "", client_request_id |-> ""]

\* the headers as __init__ leaves them, and no step called yet
NothingRun ==
    /\ id_headers = IdHeaders(1)
    /\ place_id = NotRun
    /\ homepage_data = NotRun
    /\ now_cursor = NotRun
    /\ feed_data = NotRun
    /\ flow_stores = NotRun
    /\ result = NotRun
    /\ aborted = ""
    /\ sent = <<>>
    /\ ret = [op \in Ops |-> NotRun]
    /\ resp = [op \in Ops |-> NotRun]

\* the flow object after __init__, before the first step
Constructed ==
    /\ jwt_token = PyNone
    /\ authorization = Absent
    /\ address_id = PyNone
    /\ lat = PyNone
    /\ lng = PyNone
    /\ NothingRun

NoDocument ==
    /\ doc = NotRun
    /\ dpc = "none"
    /\ cursor = NotRun
    /\ stores = NotRun

NoCursor ==
    /\ descriptor = NotRun
    /\ encoded = NotRun
    /\ cursor_data = NotRun
    /\ cpc = "none"

Init ==
    /\ flow \in {"optimized", "guest"}
    /\ pc = "health"
    /\ ids \in IdSets
    /\ Constructed
    /\ NoDocument
    /\ NoCursor

Next ==
    \/ Flow_health
    \/ Flow_create_guest
    \/ Flow_addresses
    \/ Flow_autocomplete
    \/ Flow_address_details
    \/ Flow_validate_address
    \/ Flow_add_address
    \/ Flow_set_default_address
    \/ Flow_homepage_feed
    \/ Flow_find_cursor
    \/ Flow_content_feed
    \/ Flow_extract
    \/ Guest_health
    \/ Guest_create_guest
    \/ Guest_experiments
    \/ Guest_register_device
    \/ Guest_privacy_consents
    \/ Guest_user_profile
    \/ Guest_update_language
    \/ Guest_addresses
    \/ Guest_autocomplete
    \/ Guest_address_details
    \/ Guest_validate_address
    \/ Guest_add_address
    \/ Guest_set_default_address
    \/ Guest_homepage_feed
    \/ Guest_content_feed

Spec == Init /\ [][Next]_vars

(* the two engines applied to a document, outside any flow *)
DocInit ==
    /\ doc \in Documents
    /\ dpc = "start"
    /\ cursor = NotRun
    /\ stores = NotRun
    /\ flow = "none"
    /\ pc = "done"
    /\ ids = NoIds
    /\ Constructed
    /\ NoCursor

FindCursor ==
    /\ dpc = "start"
    /\ cursor' = find_now_on_doordash_cursor(doc)
    /\ dpc' = "searched"
    /\ UNCHANGED <<doc, stores, fvars, cvars>>

ExtractStores ==
    /\ dpc = "searched"
    /\ stores' = extract_stores_from_feed(doc, "feed")
    /\ dpc' = "extracted"
    /\ UNCHANGED <<doc, cursor, fvars, cvars>>

DocNext == FindCursor \/ ExtractStores

DocSpec == DocInit /\ [][DocNext]_vars

(* a cursor mapping encoded to its token and the guest class's content-feed *)
(* step called with the token, on an object whose coordinates are set      *)
\* the largest offset of the cursor mappings
MaxOffset == 11
PageIds == {PyStr(<<"e", "t", "a">>), PyStr(<<"a", "\"", "b", "\\", "c">>)}

\* default_cursor with another offset, the first n of its content ids and
\* another page id
CursorWith(offset, n, page_id) ==
    PyDict([i \in 1..Len(Val(default_cursor)) |->
        LET item == Val(default_cursor)[i]
        IN  CASE item[1] = "offset" -> <<"offset", PyNum(offset)>>
              [] item[1] = "content_ids" -> <<"content_ids", PyList(SubSeq(Val(item[2]), 1, n))>>
              [] item[1] = "baseCursor" ->
                    <<"baseCursor", PyDict(SetItem(Val(item[2]), "page_id", page_id))>>
              [] OTHER -> item])

Descriptors ==
    {CursorWith(offset, n, page_id) :
        offset \in 0..MaxOffset,
        n \in 0..Len(Val(Get(default_cursor, "content_ids"))),
        page_id \in PageIds}

CursorInit ==
    /\ descriptor \in Descriptors
    /\ encoded = NotRun
    /\ cursor_data = NotRun
    /\ cpc = "start"
    /\ flow = "none"
    /\ pc = "done"
    /\ ids = NoIds
    /\ jwt_token = PyNone
    /\ authorization = Absent
    /\ address_id = PyNone
    /\ lat = PyNum(4)
    /\ lng = PyNum(7)
    /\ NothingRun
    /\ NoDocument

EncodeCursor ==
    /\ cpc = "start"
    /\ encoded' = CursorToken(descriptor)
    /\ cpc' = "encoded"
    /\ UNCHANGED <<descriptor, cursor_data, fvars, dvars>>

\* DoorDashGuestFlow.step_15_content_feed(cursor_id) called with the token
FetchWithCursor ==
    /\ cpc = "encoded"
    /\ cursor_data' = CursorData(encoded)
    /\ \E response \in WithBodies(FeedDocuments \cup {Invalid}),
          retry \in WithBodies(FeedDocuments \cup {Invalid}) :
          LET r == ContentFeedAfterDecode(cursor_data', encoded, response, retry) IN
          /\ CallWithRetry("content_feed", r, response, retry, FeedParams(CursorParam(encoded)))
          /\ feed_data' = r.ret
    /\ cpc' = "decoded"
    /\ UNCHANGED <<descriptor, encoded, flow, pc, ids, session, place_id, homepage_data,
                   now_cursor, flow_stores, result, aborted, dvars>>

CursorNext == EncodeCursor \/ FetchWithCursor

CursorSpec == CursorInit /\ [][CursorNext]_vars

(***************************************************************************)
(* Document order, stated apart from the engines' recursion                *)
(***************************************************************************)
RECURSIVE MappingNodes(_, _)
RECURSIVE NodesOfValues(_, _, _)
RECURSIVE NodesOfElements(_, _, _)

NodesOfValues(items, i, path) ==
    IF i > Len(items) THEN <<>>
    ELSE MappingNodes(items[i][2], path \o "." \o items[i][1]) \o NodesOfValues(items, i + 1, path)

NodesOfElements(items, i, path) ==
    IF i > Len(items) THEN <<>>
    ELSE MappingNodes(items[i], path \o "[" \o ToString(i - 1) \o "]")
         \o NodesOfElements(items, i + 1, path)

\* the mapping nodes of a document in depth-first pre-order: a mapping before
\* its values, keys and elements in order; each with its path
MappingNodes(item, path) ==
    IF Kind(item) = "dict"
    THEN <<[node |-> item, path |-> path]>> \o NodesOfValues(Val(item), 1, path)
    ELSE IF Kind(item) = "list" THEN NodesOfElements(Val(item), 1, path)
    ELSE <<>>

NoString == [nostring |-> 0]

\* x[key] when x is a mapping holding key, else Absent
Field(x, key) == IF Kind(x) = "dict" /\ HasKey(x, key) THEN Get(x, key) ELSE Absent

\* the node's text.title, trimmed, when it is a string
TrimmedTitle(node) ==
    LET t == Field(Field(node, "text"), "title")
    IN  IF Kind(t) = "str" THEN PyStr(Strip(Val(t))) ELSE NoString

\* the node's events.click.data.uri
ClickUri(node) == Field(Field(Field(Field(node, "events"), "click"), "data"), "uri")

\* the title matches the target phrase and the uri starts with the prefix
IsTokenNode(node) ==
    /\ Kind(TrimmedTitle(node)) = "str"
    /\ Contains(Lower(Val(TrimmedTitle(node))), TARGET_PHRASE)
    /\ Kind(ClickUri(node)) = "str"
    /\ StartsWith(Val(ClickUri(node)), URI_PREFIX)

FirstIndex(S) == CHOOSE i \in S : \A j \in S : i <= j

\* the token of the first token node in document order, None when there is none
FirstToken(d) ==
    LET ns == MappingNodes(d, "")
        hits == {i \in 1..Len(ns) : IsTokenNode(ns[i].node)}
    IN  IF hits = {} THEN PyNone
        ELSE PyStr(CursorOfUri(Val(ClickUri(ns[FirstIndex(hits)].node))))

\* the node bears a name of at least 3 characters
IsNamedNode(node) == Kind(TrimmedTitle(node)) = "str" /\ Len(Val(TrimmedTitle(node))) >= 3

LowerName(node) == Lower(Val(TrimmedTitle(node)))

\* the lower-cased names of the qualifying nodes of a document
QualifyingNames(d) ==
    LET ns == MappingNodes(d, "")
    IN  {LowerName(ns[i].node) : i \in {j \in 1..Len(ns) : IsNamedNode(ns[j].node)}}

\* the place in document order of the first qualifying node named as given
FirstNamed(d, lname) ==
    LET ns == MappingNodes(d, "")
    IN  FirstIndex({i \in 1..Len(ns) : IsNamedNode(ns[i].node) /\ LowerName(ns[i].node) = lname})

Searched == dpc \in {"searched", "extracted"}
Extracted == dpc = "extracted" /\ Kind(stores) = "list"

(***************************************************************************)
(* The flow as the specification describes it                              *)
(***************************************************************************)
\* the steps in the order the specification gives them (the guest flow's
\* five set-up steps come between guest-session creation and the address
\* list probe)
StepSequence ==
    <<"health", "create_guest", "experiments", "register_device", "privacy_consents",
      "user_profile", "update_language", "addresses", "autocomplete", "address_details",
      "validate_address", "add_address", "set_default_address", "homepage_feed",
      "content_feed">>
Position(op) == CHOOSE i \in 1..Len(StepSequence) : StepSequence[i] = op

Mandatory ==
    {"create_guest", "addresses", "autocomplete", "address_details",
     "validate_address", "add_address", "homepage_feed"}

Called(op) == Kind(ret[op]) # "notrun"
\* the step's method returned False or None
Failed(op) == Kind(ret[op]) = "null" \/ (Kind(ret[op]) = "bool" /\ ~Val(ret[op]))
Succeeded(op) == Called(op) /\ ~Failed(op)

Finished == pc = "done"
IsFailure(value) == Kind(value) = "null" \/ (Kind(value) = "bool" /\ ~Val(value))
DispatchedOps == {sent[i].op : i \in 1..Len(sent)}

\* the request received a 200 whose body is JSON
FetchSucceeded(op) ==
    /\ Kind(resp[op]) # "notrun"
    /\ StatusOk(resp[op])
    /\ Kind(resp[op].body) # "invalid"

(***************************************************************************)
(* Claims about the flows (under Spec)                                     *)
(***************************************************************************)

\* C1: when a mandatory step (guest-session creation, address list probe,
\* autocomplete, detail resolution, validation, registration, home-feed
\* fetch) fails, the flow has ended with a failure outcome and no request of
\* a later step has been dispatched.
C1_MandatoryFailureAborts ==
    \A s \in Mandatory :
        Failed(s) =>
            /\ Finished
            /\ IsFailure(result)
            /\ \A op \in DispatchedOps : Position(op) <= Position(s)

\* the guest-session response body {"auth_token": {}} has ended the optimized
\* flow at guest-session creation, two requests sent
C1_Witness ==
    /\ flow = "optimized"
    /\ Kind(resp["create_guest"]) # "notrun"
    /\ resp["create_guest"] = Http(200, Obj1("auth_token", PyDict(<<>>)))
    /\ Failed("create_guest")
    /\ Finished
    /\ Len(sent) = 2

\* C2: requests are dispatched in the order health probe, guest-session
\* creation, address list probe, autocomplete, detail resolution, validation,
\* registration, set-default-address, home-feed fetch, content-feed fetch,
\* and a request is dispatched only after every earlier mandatory step has
\* reported success.
C2_FixedDispatchOrder ==
    /\ \A i, j \in 1..Len(sent) :
          i < j => Position(sent[i].op) <= Position(sent[j].op)
    /\ \A op \in DispatchedOps :
          \A m \in Mandatory : Position(m) < Position(op) => Succeeded(m)

\* the optimized flow has run to its end, all ten steps dispatched
C2_Witness ==
    /\ flow = "optimized"
    /\ Finished
    /\ Len(sent) = 10
    /\ sent[10].op = "content_feed"
    /\ sent[5].op = "address_details"

\* the failure value names the step: a failure record holding the step name
NamesStep(value, step) == Kind(value) = "failure" /\ Val(value) = step

\* C3 (as claimed): the failure the flow returns carries the name of the
\* mandatory step that failed, so that aborts at different steps return
\* distinguishable values.
C3_FailureCarriesStep ==
    aborted # "" => NamesStep(result, aborted)

\* C3 (amended): the failure the flow returns is the same bare value whichever
\* step failed: None from the optimized flow, False from the guest flow.
C3_FailureIsBare ==
    aborted # "" =>
        /\ Finished
        /\ IF flow = "optimized"
           THEN Kind(result) = "null"
           ELSE Kind(result) = "bool" /\ ~Val(result)

\* the optimized flow has aborted at address registration, past the step
\* that aborted it in other runs, and returned None as there
C3_Witness ==
    /\ flow = "optimized"
    /\ aborted = "add_address"
    /\ Succeeded("create_guest")
    /\ Kind(result) = "null"

\* section-token discovery ran and found no token
NoTokenFound == flow = "optimized" /\ Kind(now_cursor) = "null"

\* C4 (as claimed): when section-token discovery finds no token the flow does
\* not abort: it dispatches the fallback content-feed request with the
\* default token and, if that fetch succeeds, runs record extraction on the
\* returned document.
C4_FallbackFetchThenExtract ==
    (NoTokenFound /\ Finished) =>
        /\ Called("content_feed")
        /\ \E i \in 1..Len(sent) :
              sent[i].op = "content_feed" /\ sent[i].arg.params[3] = cursor_b64
        /\ FetchSucceeded("content_feed") =>
              flow_stores = extract_stores_from_feed(resp["content_feed"].body, "General Feed")

\* what holds instead: the same, for a fetched document that is not empty
C4_FallbackUnlessEmptyFeed ==
    (NoTokenFound /\ Finished) =>
        /\ Called("content_feed")
        /\ \E i \in 1..Len(sent) :
              sent[i].op = "content_feed" /\ sent[i].arg.params[3] = cursor_b64
        /\ (FetchSucceeded("content_feed") /\ Truthy(resp["content_feed"].body)) =>
              flow_stores = extract_stores_from_feed(resp["content_feed"].body, "General Feed")

(***************************************************************************)
(* Claims about the two engines (under DocSpec)                            *)
(***************************************************************************)

\* C5 (as claimed): findToken returns the token of the first node in
\* depth-first pre-order whose trimmed title matches and whose click uri
\* starts with the prefix, and NotFound exactly when there is none. Stated
\* here for the documents on which findToken returns at all (C6 is about
\* the others).
C5_FirstTokenInDocumentOrder ==
    (Searched /\ ~IsRaise(cursor)) => cursor = FirstToken(doc)

\* every token node of the document yields a non-empty token
NoEmptyToken(d) ==
    LET ns == MappingNodes(d, "")
    IN  \A i \in 1..Len(ns) :
           IsTokenNode(ns[i].node) => CursorOfUri(Val(ClickUri(ns[i].node))) # <<>>

\* what does hold of findToken: it returns the first token in document order
\* when it returns and no token node of the document yields the empty token
C5_FirstTokenUnlessEmpty ==
    (Searched /\ ~IsRaise(cursor) /\ NoEmptyToken(doc)) => cursor = FirstToken(doc)

\* C6 (as claimed): findToken never raises; for every document it returns a
\* token or NotFound.
C6_FindTokenNeverRaises == Searched => ~IsRaise(cursor)

\* C7: the list extractRecords returns holds exactly one record per distinct
\* lower-cased name among the qualifying nodes: no two records have names
\* equal ignoring case, and every qualifying name is represented.
C7_OneRecordPerLowerName ==
    Extracted =>
        /\ \A i, j \in 1..Len(Val(stores)) :
              i # j => Lower(Val(Val(stores)[i].name)) # Lower(Val(Val(stores)[j].name))
        /\ {Lower(Val(Val(stores)[i].name)) : i \in 1..Len(Val(stores))} = QualifyingNames(doc)

\* two qualifying nodes differ in casing only, and a list was returned
C7_Witness ==
    /\ Extracted
    /\ Len(Val(stores)) >= 1
    /\ LET ns == MappingNodes(doc, "")
       IN  \E i, j \in 1..Len(ns) :
              /\ IsNamedNode(ns[i].node) /\ IsNamedNode(ns[j].node)
              /\ TrimmedTitle(ns[i].node) # TrimmedTitle(ns[j].node)
              /\ LowerName(ns[i].node) = LowerName(ns[j].node)

\* C8: among nodes whose names are equal ignoring case the record of the
\* first one in depth-first order is kept, with its casing, path and fields,
\* and the records appear in the order of their first occurrence.
C8_FirstOccurrenceKept ==
    Extracted =>
        LET ns == MappingNodes(doc, "")
            first(i) == FirstNamed(doc, Lower(Val(Val(stores)[i].name)))
        IN  /\ \A i \in 1..Len(Val(stores)) :
                  /\ Val(stores)[i].name = TrimmedTitle(ns[first(i)].node)
                  /\ Val(stores)[i].path = ns[first(i)].path
                  /\ Val(stores)[i] = StoreRecord(StoreInfo(ns[first(i)].node), "feed", ns[first(i)].path)
            /\ \A i, j \in 1..Len(Val(stores)) : i < j => first(i) < first(j)

\* a name occurs twice with different casing, after another name was kept
C8_Witness ==
    /\ Extracted
    /\ Len(Val(stores)) >= 2
    /\ LET ns == MappingNodes(doc, "")
       IN  \E i, j \in 1..Len(ns) :
              /\ i < j
              /\ IsNamedNode(ns[i].node) /\ IsNamedNode(ns[j].node)
              /\ TrimmedTitle(ns[i].node) # TrimmedTitle(ns[j].node)
              /\ LowerName(ns[i].node) = LowerName(ns[j].node)
              /\ \E r \in 1..Len(Val(stores)) : Val(stores)[r].name = TrimmedTitle(ns[i].node)

\* C9: extractRecords never emits a record whose name is empty or shorter
\* than 3 characters.
C9_NoShortNames ==
    Extracted => \A i \in 1..Len(Val(stores)) : Len(Val(Val(stores)[i].name)) >= 3

\* a document holding a node with a name of 1 or 2 characters was extracted
C9_Witness ==
    /\ Extracted
    /\ Len(Val(stores)) >= 1
    /\ LET ns == MappingNodes(doc, "")
       IN  \E i \in 1..Len(ns) :
              /\ Kind(TrimmedTitle(ns[i].node)) = "str"
              /\ Len(Val(TrimmedTitle(ns[i].node))) \in {1, 2}

(***************************************************************************)
(* Claims about the steps (under Spec)                                     *)
(***************************************************************************)
\* the body holds auth_token.token
HasNestedToken(body) ==
    /\ Kind(body) = "dict"
    /\ HasKey(body, "auth_token")
    /\ Kind(Get(body, "auth_token")) = "dict"
    /\ HasKey(Get(body, "auth_token"), "token")

\* C10 (as claimed): guest-session creation reports success only when the
\* response has status 200 and its body holds the nested field
\* auth_token.token; for any other body the step fails and the credential
\* stays unset.
C10_GuestNeedsNestedToken ==
    Called("create_guest") =>
        IF StatusOk(resp["create_guest"]) /\ HasNestedToken(resp["create_guest"].body)
        THEN Succeeded("create_guest")
        ELSE Failed("create_guest") /\ Kind(jwt_token) = "null"

\* what holds instead: the same of the optimized flow alone
C10_OptimizedNeedsNestedToken ==
    flow = "optimized" => C10_GuestNeedsNestedToken

\* the steps that read a required field of the response body
FieldSteps == {"create_guest", "address_details", "add_address"}

\* the step's request was sent and the step's method returned False or None
FailedOnResponse(op) == Failed(op) /\ Kind(resp[op]) # "notrun"

\* the class of a failing response: the call raised, the status is not a
\* success, or the status is a success and the body is not as required
FailureClass(response) ==
    IF IsError(response) THEN "transport"
    ELSE IF response.status # 200 THEN "status"
    ELSE "malformed"

\* what the step's method returns for a response, in the present session
ReturnOf(op, response) ==
    CASE op = "create_guest" ->
            IF flow = "guest" THEN step_2_create_guest_user(response).ret
            ELSE step_2_create_guest(response).ret
      [] op = "address_details" ->
            IF flow = "guest" THEN step_10_get_address_details(response).ret
            ELSE step_10_address_details(response).ret
      [] op = "add_address" ->
            IF flow = "guest" THEN guest_step_12_add_address(response).ret
            ELSE step_12_add_address(response).ret

\* the responses a step can fail on
FailingResponses(op) ==
    LET responses == CASE op = "create_guest" -> WithBodies(GuestBodies)
                       [] op = "address_details" -> WithBodies(DetailBodies)
                       [] op = "add_address" -> WithBodies(AddressBodies)
    IN  {r \in responses : IsFailure(ReturnOf(op, r))}

\* C11 (as claimed): the failure outcome of guest-session creation, address
\* detail resolution and address registration tells a malformed success
\* response from a non-success status and from a transport exception: a
\* failure of one class is a value that no failure of another class yields.
C11_FailureClassesDiffer ==
    \A op \in FieldSteps :
        FailedOnResponse(op) =>
            \A r \in FailingResponses(op) :
                FailureClass(r) # FailureClass(resp[op]) => ReturnOf(op, r) # ret[op]

\* C11 (amended): the failure outcome of each of the three steps is one value
\* whatever the class of the failure: False, and None for the guest flow's
\* address detail resolution.
C11_FailureClassesAlike ==
    \A op \in FieldSteps :
        FailedOnResponse(op) =>
            /\ IF flow = "guest" /\ op = "address_details"
               THEN Kind(ret[op]) = "null"
               ELSE Kind(ret[op]) = "bool" /\ ~Val(ret[op])
            /\ \A r \in FailingResponses(op) : ReturnOf(op, r) = ret[op]

\* the optimized flow's address detail resolution has failed on a 200 whose
\* body lacks the longitude, and returned False
C11_Witness ==
    /\ flow = "optimized"
    /\ FailedOnResponse("address_details")
    /\ FailureClass(resp["address_details"]) = "malformed"
    /\ Kind(ret["address_details"]) = "bool"
    /\ \E r \in FailingResponses("address_details") : FailureClass(r) = "transport"
    /\ \E r \in FailingResponses("address_details") : FailureClass(r) = "status"

\* the coordinate a response body holds under key, None when it holds none
CoordinateIn(body, key) ==
    IF Kind(body) = "dict" /\ HasKey(body, key) THEN Get(body, key) ELSE PyNone

\* address detail resolution received a response without a latitude or
\* without a longitude (absent or null)
DetailsLackCoordinate ==
    /\ Kind(resp["address_details"]) # "notrun"
    /\ ~IsError(resp["address_details"])
    /\ \/ Kind(CoordinateIn(resp["address_details"].body, "lat")) = "null"
       \/ Kind(CoordinateIn(resp["address_details"].body, "lng")) = "null"

FeedOps == {"homepage_feed", "content_feed"}

\* C12 (as claimed): address detail resolution fails whenever the response
\* lacks a latitude or a longitude or either is null, even with a success
\* status; the flow then aborts and no home-feed or content-feed request is
\* dispatched.
C12_MissingCoordinateFails ==
    DetailsLackCoordinate =>
        /\ Failed("address_details")
        /\ Finished
        /\ DispatchedOps \cap FeedOps = {}

\* what holds instead: the same of the optimized flow alone
C12_OptimizedMissingCoordinateFails ==
    flow = "optimized" => C12_MissingCoordinateFails

PlaceSteps == {"address_details", "validate_address", "add_address"}

\* the suggestion list the autocomplete request received
Suggestions == Val(resp["autocomplete"].body)

\* the autocomplete request received a 200 with a list of suggestions
GotSuggestions ==
    /\ Kind(resp["autocomplete"]) # "notrun"
    /\ StatusOk(resp["autocomplete"])
    /\ Kind(resp["autocomplete"].body) = "list"

\* the place identifier of a suggestion, None when it has none
PlaceIdOf(suggestion) ==
    IF Kind(suggestion) = "dict" /\ HasKey(suggestion, "google_place_id")
    THEN Get(suggestion, "google_place_id") ELSE PyNone

\* C13: the place identifier sent with address detail resolution, validation
\* and registration is the place identifier of the first autocomplete
\* suggestion, never that of a later one; an empty suggestion list, or a first
\* suggestion without a place identifier, makes the autocomplete step fail
\* and the flow abort there.
C13_FirstSuggestionOnly ==
    /\ \A i \in 1..Len(sent) :
          sent[i].op \in PlaceSteps =>
              /\ GotSuggestions
              /\ Len(Suggestions) >= 1
              /\ sent[i].arg = PlaceIdOf(Suggestions[1])
              /\ Kind(sent[i].arg) # "null"
    /\ (GotSuggestions /\ (Len(Suggestions) = 0 \/ Kind(PlaceIdOf(Suggestions[1])) = "null")) =>
          /\ Failed("autocomplete")
          /\ Finished
          /\ aborted = "autocomplete"
          /\ DispatchedOps \cap PlaceSteps = {}

\* two suggestions with different place identifiers were received and all
\* three steps were sent the first one
C13_Witness ==
    /\ GotSuggestions
    /\ Len(Suggestions) = 2
    /\ PlaceIdOf(Suggestions[1]) # PlaceIdOf(Suggestions[2])
    /\ PlaceSteps \subseteq DispatchedOps
    /\ \A i \in 1..Len(sent) :
          sent[i].op \in PlaceSteps => sent[i].arg = PlaceIdOf(Suggestions[1])

\* the remote call of the step raised
TransportFailed(op) == Kind(resp[op]) # "notrun" /\ IsError(resp[op])

\* the steps of the optimized flow that return True when the call raises
ReturnTrueOnException == {"health", "set_default_address"}

C15_HealthProbeOptional ==
    /\ [](aborted # "health")
    /\ [][(pc = "health") => (pc' = "create_guest" /\ result' = result)]_vars

\* C15 (amended): the same of the optimized flow; the guest flow ends with
\* False, guest-session creation not attempted, when its health probe does
\* not end with status 200 (a 403 is retried once) or raises.
C15_HealthProbeOptionalInOptimized ==
    /\ []((flow = "optimized") => aborted # "health")
    /\ []((flow = "guest" /\ Failed("health")) =>
             (aborted = "health" /\ Finished /\ ~Called("create_guest")))
    /\ [][(flow = "optimized" /\ pc = "health") =>
             (pc' = "create_guest" /\ result' = result)]_vars

\* the optimized flow's health probe raised and guest-session creation was
\* sent its request all the same
C15_Witness ==
    /\ flow = "optimized"
    /\ TransportFailed("health")
    /\ Len(sent) >= 2
    /\ sent[2].op = "create_guest"

\* C16 (as claimed): set-default-address is best-effort: whatever its outcome
\* (success, 404, another status, transport exception, missing address
\* identifier) the flow does not abort, the home-feed fetch is attempted
\* next and the step leaves the session state as it was.
C16_SetDefaultBestEffort ==
    /\ [](aborted # "set_default_address")
    /\ [][(pc = "set_default_address") =>
             (pc' = "homepage_feed" /\ result' = result /\ session' = session)]_vars

\* C16 (amended): the same of the optimized flow; the guest flow ends with
\* False, the home-feed fetch not attempted, when the step does not end with
\* status 200, raises, or has no address identifier; the step leaves the
\* session state as it was in both flows.
C16_SetDefaultBestEffortInOptimized ==
    /\ []((flow = "optimized") => aborted # "set_default_address")
    /\ []((flow = "guest" /\ Failed("set_default_address")) =>
             (aborted = "set_default_address" /\ Finished /\ ~Called("homepage_feed")))
    /\ [][(flow = "optimized" /\ pc = "set_default_address") =>
             (pc' = "homepage_feed" /\ result' = result)]_vars
    /\ [][(pc = "set_default_address") => (session' = session)]_vars

\* the optimized flow's set-default-address had no address identifier to
\* send, returned False, and the home-feed request was sent all the same
C16_Witness ==
    /\ flow = "optimized"
    /\ Failed("set_default_address")
    /\ ~Truthy(address_id)
    /\ "homepage_feed" \in DispatchedOps

\* the feed requests sent, in order
FeedRequests == SelectSeq(sent, LAMBDA request : request.op \in FeedOps)

\* the request went out with the credential and with both coordinates
WithCredentialAndCoordinates(request) ==
    /\ request.auth # Absent
    /\ Kind(request.arg.params[1]) # "null"
    /\ Kind(request.arg.params[2]) # "null"

C18_AddressIdOnlyFromRegistration ==
    /\ [](Kind(address_id) # "null" => Succeeded("add_address"))
    /\ [](Failed("add_address") => Kind(address_id) = "null")
    /\ [][(address_id' # address_id) => (pc = "add_address")]_vars

\* registration failed on a non-success status whose body holds an id, and
\* the address identifier is unset
C18_Witness ==
    /\ Failed("add_address")
    /\ Kind(resp["add_address"]) # "notrun"
    /\ ~IsError(resp["add_address"])
    /\ Kind(CoordinateIn(resp["add_address"].body, "id")) # "null"
    /\ Kind(address_id) = "null"

\* the content feed was fetched and the extraction of the fetched document
\* gives the empty list
FetchedFeedHasNoRecord ==
    /\ flow = "optimized"
    /\ Finished
    /\ FetchSucceeded("content_feed")
    /\ extract_stores_from_feed(resp["content_feed"].body, "feed") = PyList(<<>>)

\* C19 (as claimed): the flow's result is a non-empty record list, an empty
\* record list or a terminal failure, and a feed that is fetched successfully
\* but yields no record results in the empty list, not in a failure (stated
\* of the runs in which the extraction was run on the fetched feed).
C19_EmptyFeedGivesEmptyList ==
    (FetchedFeedHasNoRecord /\ Kind(flow_stores) = "list") =>
        (Kind(result) = "list" /\ Len(Val(result)) = 0)

\* C19 (amended): what the flow returns is a non-empty record list or None;
\* the empty list is never returned, and a feed that is fetched successfully
\* but yields no record results in None, the value of a terminal failure.
C19_ListOrNone ==
    /\ (flow = "optimized" /\ Finished /\ ~IsRaise(result)) =>
          \/ Kind(result) = "null"
          \/ Kind(result) = "list" /\ Len(Val(result)) > 0 /\ result = flow_stores
    /\ FetchedFeedHasNoRecord => Kind(result) = "null"

\* extraction ran on a fetched feed, found no record, and the flow returned None
C19_Witness ==
    /\ FetchedFeedHasNoRecord
    /\ flow_stores = PyList(<<>>)
    /\ aborted = ""
    /\ Kind(result) = "null"

(***************************************************************************)
(* C20                                                                     *)
(***************************************************************************)
BaseOf(cursor_dict) == Get(cursor_dict, "baseCursor")

\* the two mappings agree on the named fields, and the second one's trace
\* list is empty
SameSelection(a, b) ==
    /\ Kind(b) = "dict"
    /\ \A key \in {"offset", "content_ids", "request_parent_id", "request_child_id",
                   "page_stack_trace", "baseCursor"} : HasKey(b, key)
    /\ Get(b, "offset") = Get(a, "offset")
    /\ Get(b, "content_ids") = Get(a, "content_ids")
    /\ Get(b, "request_parent_id") = Get(a, "request_parent_id")
    /\ Get(b, "request_child_id") = Get(a, "request_child_id")
    /\ Get(b, "page_stack_trace") = PyList(<<>>)
    /\ Kind(BaseOf(b)) = "dict"
    /\ \A key \in {"page_id", "page_type", "cursor_version"} :
          HasKey(BaseOf(b), key) /\ Get(BaseOf(b), key) = Get(BaseOf(a), key)

\* C20: the default cursor mapping, serialised to JSON, base-64 encoded, then
\* base-64 decoded and parsed, comes back with the same offset, content id
\* list, parent and child identifiers, an empty trace list and the same page
\* identifier, page type and version in its base cursor; so does every cursor
\* mapping of the specification.
C20_CursorRoundTrip ==
    cpc = "decoded" => SameSelection(descriptor, cursor_data)

C20_Witness ==
    /\ cpc = "decoded"
    /\ descriptor = default_cursor
    /\ encoded = cursor_b64
    /\ Len(Val(encoded)) > LongCursor
    /\ cursor_data = default_cursor


(***************************************************************************)
(* C21 .. C23, C26 .. C28: more about the two engines (under DocSpec)      *)
(***************************************************************************)
\* the document holds no mapping node at any depth
NoMappingNode(d) == MappingNodes(d, "") = <<>>

\* C21: findToken applied to a document without a mapping node (a leaf, an
\* empty sequence, sequences nested in sequences that hold only leaves)
\* returns NotFound.
C21_NoMappingGivesNotFound ==
    (Searched /\ NoMappingNode(doc)) => cursor = PyNone

\* sequences nested in a sequence, holding leaves only, have been searched
C21_Witness ==
    /\ Searched
    /\ Kind(doc) = "list"
    /\ Len(Val(doc)) = 2
    /\ \A i \in 1..Len(Val(doc)) : Kind(Val(doc)[i]) = "list"
    /\ NoMappingNode(doc)
    /\ cursor = PyNone


\* the uri without the prefix "facet_feed/" and without one trailing "/"
TokenOfUri(uri) ==
    LET rest == SubSeq(uri, Len(URI_PREFIX) + 1, Len(uri))
    IN  IF Len(rest) > 0 /\ rest[Len(rest)] = "/" THEN SubSeq(rest, 1, Len(rest) - 1) ELSE rest

\* C22: a token findToken returns is the click uri of a matching node with
\* the prefix "facet_feed/" removed and, when the remainder ends with "/",
\* exactly one trailing "/" removed; a document that is itself a matching
\* node with a non-empty remainder gives that token.
C22_TokenIsUriStripped ==
    Searched =>
        /\ Kind(cursor) = "str" =>
              LET ns == MappingNodes(doc, "")
              IN  \E i \in 1..Len(ns) :
                     /\ IsTokenNode(ns[i].node)
                     /\ cursor = PyStr(TokenOfUri(Val(ClickUri(ns[i].node))))
        /\ (IsTokenNode(doc) /\ TokenOfUri(Val(ClickUri(doc))) # <<>>) =>
              cursor = PyStr(TokenOfUri(Val(ClickUri(doc))))

\* the uri "facet_feed/ABC123/" has given the token "ABC123"
C22_Witness ==
    /\ Searched
    /\ doc = N_SectionABC
    /\ ClickUri(doc) = PyStr(U_ABC123Slash)
    /\ cursor = PyStr(K_ABC123)


\* the text, without regard to case, holds the target phrase at some place
HoldsPhrase(text) ==
    \E at \in 0..(Len(text) - Len(TARGET_PHRASE)) :
        \A k \in 1..Len(TARGET_PHRASE) : LowerChar(text[at + k]) = LowerChar(TARGET_PHRASE[k])

\* the node's title, trimmed, holds the phrase, and its click uri is usable
HoldsPhraseAndUri(node) ==
    /\ Kind(TrimmedTitle(node)) = "str"
    /\ HoldsPhrase(Val(TrimmedTitle(node)))
    /\ Kind(ClickUri(node)) = "str"
    /\ StartsWith(Val(ClickUri(node)), URI_PREFIX)

\* C23: a node's title matches exactly when the title, trimmed and compared
\* without regard to case, contains "now on doordash"; a match is found at
\* any depth, also in a sequence element that follows siblings that do not
\* match. Stated for the documents on which findToken returns and whose
\* matching nodes give non-empty tokens: a token is returned exactly when
\* some mapping node of the document, at any depth, has such a title (and a
\* usable uri), and the engine's title test agrees with the phrase test on
\* every titled node.
C23_TitleMatchesPhrase ==
    Searched =>
        LET ns == MappingNodes(doc, "")
        IN  /\ \A i \in 1..Len(ns) :
                  Kind(TrimmedTitle(ns[i].node)) = "str" =>
                      (TitleMatches(Val(TrimmedTitle(ns[i].node)))
                          <=> HoldsPhrase(Val(TrimmedTitle(ns[i].node))))
            /\ (~IsRaise(cursor) /\ NoEmptyToken(doc)) =>
                  (Kind(cursor) = "str" <=> \E i \in 1..Len(ns) : HoldsPhraseAndUri(ns[i].node))

\* {"a": [{"text": {"title": "Unrelated"}}, {"text": {"title": "Now on
\* doordash "}, "events": ...}]} has given "XYZ"
C23_Witness ==
    /\ Searched
    /\ doc = Wrapped(<<N_Unrelated, N_SectionXYZ>>)
    /\ ~TitleMatches(Val(TrimmedTitle(N_Unrelated)))
    /\ TitleMatches(Val(TrimmedTitle(N_SectionXYZ)))
    /\ cursor = PyStr(K_XYZ)


\* the node's title matches, its uri has the prefix, and a token remains
YieldsToken(node) == IsTokenNode(node) /\ TokenOfUri(Val(ClickUri(node))) # <<>>

\* C26 (as claimed): findToken returns NotFound only after every mapping node
\* has been examined: a matching node without a usable token (no events,
\* click or uri, a uri without the prefix, a uri of which nothing remains)
\* does not stop the search, which goes on through that node's descendants
\* and the later nodes; so when NotFound is returned no mapping node of the
\* document yields a token.
C26_NotFoundOnlyAfterWholeTree ==
    (Searched /\ cursor = PyNone) =>
        LET ns == MappingNodes(doc, "")
        IN  \A i \in 1..Len(ns) : ~YieldsToken(ns[i].node)

\* what does hold: the same for the documents none of whose matching nodes
\* has a uri of which nothing remains
C26_WholeTreeUnlessEmptyToken ==
    (Searched /\ cursor = PyNone /\ NoEmptyToken(doc)) =>
        LET ns == MappingNodes(doc, "")
        IN  \A i \in 1..Len(ns) : ~YieldsToken(ns[i].node)


\* the lower-cased names of the records returned
ReturnedNames == {Lower(Val(Val(stores)[i].name)) : i \in 1..Len(Val(stores))}

\* C27: extractRecords visits every mapping node at every depth, without
\* short-circuiting: each mapping node with a qualifying name, also one
\* nested below a node that is a record or below a node that is none,
\* contributes its lower-cased name to the list returned.
C27_EveryNodeVisited ==
    Extracted =>
        LET ns == MappingNodes(doc, "")
        IN  \A i \in 1..Len(ns) :
               IsNamedNode(ns[i].node) => LowerName(ns[i].node) \in ReturnedNames

\* "Pizza Place" below "Pi", which is no record, and "Tacos" below "Pizza
\* Place", which is one: both are returned, with their paths
C27_Witness ==
    /\ Extracted
    /\ doc = Chain(<<N_Pi, N_Pizza, N_Tacos>>)
    /\ Len(Val(stores)) = 2
    /\ Val(stores)[1].name = PyStr(T_PizzaPlace) /\ Val(stores)[1].path = ".a"
    /\ Val(stores)[2].name = PyStr(T_Tacos) /\ Val(stores)[2].path = ".a.a"


\* the paths of the records the visit of the document appends, before the
\* duplicates are removed
EmittedPaths(d) ==
    LET emitted == Val(extract_store_info(d, "", "feed"))
    IN  {emitted[i].path : i \in 1..Len(emitted)}

\* the paths of the mapping nodes whose trimmed title has 3 characters or more
NamedPaths(d) ==
    LET ns == MappingNodes(d, "")
    IN  {ns[i].path : i \in {j \in 1..Len(ns) : IsNamedNode(ns[j].node)}}

\* the node has a custom mapping or click data
HasData(node) ==
    \/ Kind(Field(node, "custom")) = "dict"
    \/ Kind(Field(Field(node, "events"), "click")) = "dict"

\* C28: a mapping node is emitted as a record if and only if its text.title,
\* trimmed, has at least 3 characters, whether or not its custom and
\* events.click.data are there: a node with custom or click data and no
\* qualifying name is never emitted, a node with a qualifying name and
\* neither of them is emitted; and every record returned is one of them.
C28_EmittedIffNamed ==
    Extracted =>
        /\ EmittedPaths(doc) = NamedPaths(doc)
        /\ \A i \in 1..Len(Val(stores)) : Val(stores)[i].path \in NamedPaths(doc)

\* "Pi" with a rating is not emitted; "Pizza place" with neither custom nor
\* click data is, its rating and store id missing
C28_Witness ==
    /\ Extracted
    /\ doc = ListOf(<<N_Pi, N_PizzaLc>>)
    /\ HasData(N_Pi) /\ ~IsNamedNode(N_Pi)
    /\ ~HasData(N_PizzaLc) /\ IsNamedNode(N_PizzaLc)
    /\ Len(Val(stores)) = 1
    /\ Val(stores)[1].name = PyStr(T_PizzaPlaceLc)
    /\ Val(stores)[1].path = "[1]"
    /\ Val(stores)[1].rating = Absent
    /\ Val(stores)[1].store_id = Absent


(***************************************************************************)
(* C24, C25, C29, C30: more about the flows (under Spec)                   *)
(***************************************************************************)
\* the identifier headers are the four identifiers of the flow object
CarriesIds(headers) ==
    /\ headers.x_session_id = ids.session_id
    /\ headers.device_id = ids.device_id
    /\ headers.x_correlation_id = ids.correlation_id
    /\ headers.x_client_request_id = ids.client_request_id

\* C24: the session identifiers (device, session, correlation, request) are
\* assigned when the flow object is created and no step, successful or
\* failed, changes them: the fields never change, and the headers of the
\* session and of every request dispatched carry them.
C24_IdentifiersStable ==
    /\ [][ids' = ids]_vars
    /\ [](CarriesIds(id_headers) /\ \A i \in 1..Len(sent) : CarriesIds(sent[i].ids))

\* the guest flow has rewritten its headers after guest-session creation and
\* has then failed at the address list probe, its identifiers as created
C24_Witness ==
    /\ flow = "guest"
    /\ ids \in IdSets
    /\ Succeeded("create_guest")
    /\ id_headers.dd_session_id = 2
    /\ aborted = "addresses"
    /\ Len(sent) >= 3
    /\ CarriesIds(sent[1].ids)
    /\ CarriesIds(sent[Len(sent)].ids)


\* the steps after guest-session creation: their requests are authorized by
\* the credential
CredentialSteps == Ops \ {"health", "create_guest"}

\* the requests of the credential steps sent so far
CredentialRequests == SelectSeq(sent, LAMBDA request : request.op \in CredentialSteps)

\* C25 (as claimed): no request of a step that requires the credential (the
\* address list probe, autocomplete, detail resolution, validation,
\* registration, set-default-address and every other step after
\* guest-session creation) is dispatched while the credential is unset: every
\* such request carries the authorization header, and a step called with the
\* credential unset has returned a failure value.
C25_NoUnauthenticatedRequest ==
    /\ \A i \in 1..Len(CredentialRequests) : CredentialRequests[i].auth # Absent
    /\ \A op \in CredentialSteps :
          (Called(op) /\ ~Truthy(jwt_token)) => Failed(op)

\* what holds instead: the same of the optimized flow alone
C25_NoUnauthenticatedRequestInOptimized ==
    flow = "optimized" => C25_NoUnauthenticatedRequest


\* the content-feed requests sent so far, in order
ContentRequests == SelectSeq(sent, LAMBDA request : request.op = "content_feed")

\* section-token discovery returned a token (only run_optimized_flow searches)
TokenFound == flow = "optimized" /\ Kind(now_cursor) = "str"

\* the outcome C29 describes, of a flow that has ended
OneContentRequest ==
    /\ Len(ContentRequests) = 1
    /\ ContentRequests[1].arg.params[3] = (IF TokenFound THEN now_cursor ELSE cursor_b64)
    /\ (TokenFound /\ ~FetchSucceeded("content_feed")) =>
          (aborted = "content_feed" /\ result = AbortResult(flow))

\* C29 (as claimed): after a successful home-feed fetch the flow dispatches
\* exactly one content-feed request, with the discovered section token when
\* token discovery found one and with the default token exactly when none was
\* found; when the request made with a discovered token fails, the flow ends
\* in failure and no second content-feed request is sent.
C29_OneContentFeedRequest ==
    /\ Len(ContentRequests) <= 1
    /\ (Finished /\ FetchSucceeded("homepage_feed")) => OneContentRequest

\* the flow went on after the home feed, and token discovery (where there is
\* one) returned
DiscoveryReturned ==
    /\ Called("homepage_feed")
    /\ Truthy(ret["homepage_feed"])
    /\ flow = "optimized" => Kind(now_cursor) # "notrun"

\* what holds instead: the same of the runs whose home document is not empty
\* and in which token discovery returned
C29_OneContentFeedRequestAfterDiscovery ==
    /\ Len(ContentRequests) <= 1
    /\ (Finished /\ DiscoveryReturned) => OneContentRequest

\* a discovered token was sent, the request failed, and the flow ended there
C29_FailedSectionFeed ==
    /\ Finished
    /\ TokenFound
    /\ Len(ContentRequests) = 1
    /\ ContentRequests[1].arg.params[3] = now_cursor
    /\ ~FetchSucceeded("content_feed")
    /\ aborted = "content_feed"

\* DoorDashGuestFlow.step_15_content_feed called with a token sends one
\* request (it does not: under CursorSpec the token is sent a second time
\* when its first request fails)
C29_GuestStepSendsTokenOnce ==
    cpc = "decoded" => Len(ContentRequests) = 1


\* the place of a statement in the flow's body
PlaceOf(f, op) == CHOOSE i \in 1..Len(OrderOf(f)) : OrderOf(f)[i] = op

\* how many requests the step has sent
RequestsOf(op) == Len(SelectSeq(sent, LAMBDA request : request.op = op))

\* the flow goes from the statement it is at to another one
Advance ==
    /\ pc # "done"
    /\ pc' \in {OrderOf(flow)[i] : i \in 1..Len(OrderOf(flow))} \ {pc}

\* the program is sequential: every remote call returns or raises, so does
\* the search and the extraction, and the flow's next statement is then run.
\* Every step of Next changes pc and some step of Next is possible wherever
\* pc is not "done", so this is weak fairness of Next.
FairSpec == Spec /\ WF_pc(Advance)

\* C30 (as claimed): the flow always terminates: each step is dispatched at
\* most once, no step sends more than one request, and the flow reaches its
\* end.
C30_OneRequestPerStep ==
    /\ [][PlaceOf(flow, pc') > PlaceOf(flow, pc)]_vars
    /\ [](\A op \in Ops : RequestsOf(op) <= 1)
    /\ <>Finished

\* the most requests a step sends: two for the guest flow's health probe,
\* which is sent again after a 403, one for every other step
MostRequests(f, op) == IF f = "guest" /\ op = "health" THEN 2 ELSE 1

\* C30 (amended): the flow always terminates: each step is called at most
\* once, in the order of the flow's body; a step sends at most one request,
\* except the guest flow's health probe, which sends a second one after a
\* 403; and the flow reaches its end, where it stays, after no more requests
\* than that.
C30_TerminatesWithBoundedRequests ==
    /\ [][PlaceOf(flow, pc') > PlaceOf(flow, pc)]_vars
    /\ [](\A op \in Ops : RequestsOf(op) <= MostRequests(flow, op))
    /\ [](Len(sent) <= Len(OrderOf(flow)))
    /\ <>[]Finished

\* the guest flow has ended after a health probe that was sent twice and one
\* request of each later step
C30_Witness ==
    /\ flow = "guest"
    /\ Finished
    /\ RequestsOf("health") = 2
    /\ \A op \in Ops \ {"health"} : RequestsOf(op) = 1
    /\ Len(sent) = Len(GuestOrder)



(***************************************************************************)
(* C31 .. C35: the session state between the steps (under Spec)            *)
(***************************************************************************)
\* the value is a string of at least one character
NonEmptyString(value) == Kind(value) = "str" /\ Len(Val(value)) > 0

\* C31 (as claimed): whenever guest-session creation reports success the
\* credential in the session state is set, non-null and non-empty, so the
\* step after it never fails for lack of a credential: the address list
\* probe of the optimized flow, once called, has sent its request.
C31_SuccessSetsCredential ==
    Succeeded("create_guest") =>
        /\ NonEmptyString(jwt_token)
        /\ (flow = "optimized" /\ Called("addresses")) => "addresses" \in DispatchedOps

\* what holds instead: after a reported success the credential is whatever
\* the token field of the response held, null included, and the address list
\* probe sends its request exactly when that value is truthy
C31_CredentialIsTokenField ==
    Succeeded("create_guest") =>
        /\ jwt_token = (IF flow = "optimized"
                        THEN NestedToken(resp["create_guest"].body)
                        ELSE NestedOrTopToken(resp["create_guest"].body))
        /\ (flow = "optimized" /\ Called("addresses")) =>
              ("addresses" \in DispatchedOps <=> Truthy(jwt_token))


\* C32 (as claimed): whenever address registration reports success the
\* address identifier in the session state is set, non-null and non-empty,
\* so set-default-address, once called, has an identifier and sends its
\* request.
C32_SuccessSetsAddressId ==
    Succeeded("add_address") =>
        /\ Kind(address_id) # "null" /\ Truthy(address_id)
        /\ Called("set_default_address") => "set_default_address" \in DispatchedOps

\* what holds instead: after a reported success the identifier is whatever
\* the id field of the response held, null included, and set-default-address
\* sends its request exactly when that value is truthy
C32_AddressIdIsIdField ==
    Succeeded("add_address") =>
        /\ address_id = AddressId(resp["add_address"])
        /\ Called("set_default_address") =>
              ("set_default_address" \in DispatchedOps <=> Truthy(address_id))


\* address detail resolution has just been called and has failed
DetailsJustFailed == pc = "address_details" /\ pc' # pc /\ Failed("address_details")'

\* C33 (as claimed): in every reachable state latitude and longitude are
\* either both set or both unset, and a failed address detail resolution
\* leaves the coordinates as they were before the step.
C33_CoordinatesPaired ==
    /\ [](Kind(lat) = "null" <=> Kind(lng) = "null")
    /\ [][DetailsJustFailed => (lat' = lat /\ lng' = lng)]_vars

\* what holds instead: the coordinates are left as they were by a resolution
\* that fails in the guest flow, and in the optimized flow by one that fails
\* without a 200 response whose body is JSON
C33_CoordinatesKeptWithoutBody ==
    [][(DetailsJustFailed /\ (flow = "guest" \/ ~FetchSucceeded("address_details")'))
          => (lat' = lat /\ lng' = lng)]_vars

\* a state the claim excludes: a latitude without a longitude, after a
\* resolution that failed (optimized) or one that succeeded (guest)
C33_HalfPair ==
    /\ Kind(lat) = "num"
    /\ Kind(lng) = "null"
    /\ IF flow = "optimized" THEN Failed("address_details") ELSE Succeeded("address_details")


\* address detail resolution succeeded and stored two non-null coordinates
CoordinatesAccepted ==
    /\ Succeeded("address_details")
    /\ Kind(lat) # "null"
    /\ Kind(lng) # "null"

\* C34 (as claimed): every coordinate pair that address detail resolution
\* accepts, both components present and non-null, a component equal to zero
\* included, is accepted by the home-feed and content-feed steps: after a
\* successful resolution a feed step that is called sends its request.
C34_AcceptedCoordinatesAreFetched ==
    CoordinatesAccepted =>
        \A op \in FeedOps : Called(op) => op \in DispatchedOps

\* what holds instead: the same of the pairs whose components are both truthy
\* (not zero)
C34_TruthyCoordinatesAreFetched ==
    (CoordinatesAccepted /\ Truthy(lat) /\ Truthy(lng)) =>
        \A op \in FeedOps : Called(op) => op \in DispatchedOps

\* the resolution accepted a latitude of zero and the home-feed step, called,
\* sent nothing
C34_ZeroLatitudeRefused ==
    /\ CoordinatesAccepted
    /\ lat = PyNum(0)
    /\ Called("homepage_feed")
    /\ "homepage_feed" \notin DispatchedOps
    /\ aborted = "homepage_feed"


\* the home-feed step has just been called
HomeFeedJustCalled == pc = "homepage_feed" /\ pc' # pc

\* C35 (as claimed): whenever the home-feed request returns a success status
\* with a document, the flow proceeds to the statement after the home-feed
\* step (section-token discovery in the optimized flow), whatever the
\* document is, an empty mapping or an empty sequence included; the flow
\* aborts at the home-feed step only when the request fails.
C35_FetchedHomeFeedProceeds ==
    [][(HomeFeedJustCalled /\ FetchSucceeded("homepage_feed")')
          => (pc' = NextOp(flow, "homepage_feed") /\ aborted' = "")]_vars

\* what holds instead: the flow proceeds exactly when the request returned a
\* success status with a document that is not empty, and aborts at the
\* home-feed step otherwise
C35_NonEmptyHomeFeedProceeds ==
    [][HomeFeedJustCalled =>
          IF FetchSucceeded("homepage_feed")' /\ Truthy(resp["homepage_feed"].body)'
          THEN pc' = NextOp(flow, "homepage_feed") /\ aborted' = ""
          ELSE pc' = "done" /\ aborted' = "homepage_feed"]_vars

\* the home feed was fetched, an empty sequence, and the optimized flow
\* aborted there without searching it
C35_EmptyHomeFeedAborts ==
    /\ flow = "optimized"
    /\ FetchSucceeded("homepage_feed")
    /\ resp["homepage_feed"].body = PyList(<<>>)
    /\ aborted = "homepage_feed"
    /\ Kind(now_cursor) = "notrun"
    /\ Kind(result) = "null"



(***************************************************************************)
(* C36: extract_stores_from_feed on malformed nodes (under DocSpec)        *)
(***************************************************************************)
\* C36 (as claimed): extractRecords returns a record list for every document
\* without raising, the documents included where a text.title or a
\* text.subtitle is null or not a string, or where events or events.click is
\* not a mapping.
C36_ExtractNeverRaises == dpc = "extracted" => Kind(stores) = "list"

\* the node's text is a mapping whose title or subtitle is there and is not
\* a string
TextNotString(node) ==
    LET text == Field(node, "text")
    IN  /\ Kind(text) = "dict"
        /\ \/ Kind(GetOr(text, "title", PyStr(<<>>))) # "str"
           \/ Kind(GetOr(text, "subtitle", PyStr(<<>>))) # "str"

\* the node has events that is not a mapping, or whose click, or the data of
\* whose click, is there and is not a mapping
EventsNotMapping(node) ==
    /\ HasKey(node, "events")
    /\ LET events == Get(node, "events")
       IN  \/ Kind(events) # "dict"
           \/ /\ HasKey(events, "click")
              /\ LET click == Get(events, "click")
                 IN  \/ Kind(click) # "dict"
                     \/ Kind(GetOr(click, "data", PyDict(<<>>))) # "dict"

\* no mapping node of the document is malformed in one of those ways
WellFormed(d) ==
    LET ns == MappingNodes(d, "")
    IN  \A i \in 1..Len(ns) : ~TextNotString(ns[i].node) /\ ~EventsNotMapping(ns[i].node)

\* what holds instead: a record list is returned for every document none of
\* whose nodes is malformed in one of those ways
C36_ExtractReturnsOnWellFormed ==
    (dpc = "extracted" /\ WellFormed(doc)) => Kind(stores) = "list"

\* the extraction of a document with a null title after a good record raised
C36_NullTitleRaises ==
    /\ dpc = "extracted"
    /\ IsRaise(stores)
    /\ \E i \in 1..Len(MappingNodes(doc, "")) :
          /\ MappingNodes(doc, "")[i].node = N_NullTitle
          /\ i > 1

==========================================================================
